---- MODULE Spec2Model ----
(***************************************************************************)
(* CopyArena backend: positions ingestion (handle_positions_update), the   *)
(* copy-trade ledger (create_copy_trade and the confirmation handlers),    *)
(* backfill on client attach and the client session hub                    *)
(* (ConnectionManager).  Handlers are coroutines: a handler runs until it  *)
(* awaits a send on a client websocket, where it is suspended and other    *)
(* handlers may run; Resume continues it with the outcome of the send.     *)
(***************************************************************************)
EXTENDS Integers, Sequences, FiniteSets, TLC

\* ---------------------------------------------------------------- bounds
MaxTicket == 2          \* tickets are 1..MaxTicket (per owner namespace)
MaxProfit == 1          \* a position's profit is 0..MaxProfit
MaxPositions == 2       \* positions per snapshot
MaxSockets == 1         \* client websockets of one user at any time
MaxChannels == 2        \* the same where a second attach is followed
MaxUi == 3              \* UI websocket objects of one user
MaxPushes == 1          \* send_user_message calls suspended at a time
MaxTasks == 1           \* suspended handlers at any time
MaxSent == 2            \* trade commands delivered over a run
MaxCopies == 1          \* ledger rows
PairSent == 3           \* trade commands delivered over a run (SpecPair)
PairCopies == 2         \* ledger rows (SpecPair)
FanTasks == 2           \* suspended handlers at any time (SpecFan)
FanCopies == 3          \* ledger rows (SpecFan)
MaxDeals == 2           \* deals per history batch
MaxKeys == 3            \* API keys issued over a run
MaxHosts == 2           \* client hosts
LocalSent == 4          \* trade commands delivered over a run (SpecLocal)

\* ---------------------------------------------------------------- values
None == -1              \* SQL NULL / Python None
Now == 1                \* datetime.utcnow(), abstracted to one instant
Price == 1              \* current_price / open_price of every position
OpenTime == 1           \* open_time of every position

Later == Now + 1        \* an instant after Now

Users == 1..3
Hosts == 1..MaxHosts
Instants == {Now, Later}
Tickets == 1..MaxTicket
Profits == 0..MaxProfit

VARIABLES
    users,              \* users table: id -> [username, is_master_trader, api_key,
                        \*   is_active, last_login_ip, last_seen]
    user_api_keys,      \* process-local cache: API key -> user id
    issued,             \* observation: the keys each user was handed, in order
    follows,            \* follows table, row id = index
    active_connections, \* hub: user id -> set of UI websockets ({}: no entry)
    pushes,             \* send_user_message calls suspended in send_text
    mt5_connections,    \* mt5_connections table: user id -> row, for the users with one
    trades,             \* trades table, row id = index
    copy_trades,        \* copy_trades table, row id = index
    client_connections, \* manager.client_connections: user -> websocket or None
    sockets,            \* client websocket endpoints still running: [ws, user, up]
    limits,             \* the run's budget: [tasks, copies, sent, audit], fixed by Init
    tasks,              \* suspended coroutines (each a stack of frames)
    sent,               \* trade commands delivered to clients, in order
    done,               \* observation: the positions reconciliation that finished last
    streak              \* observation: run of identical consecutive submissions

vars == <<users, user_api_keys, issued, follows, trades, copy_trades, client_connections, sockets,
          limits, mt5_connections, active_connections, pushes, tasks, sent, done, streak>>

\* ---------------------------------------------------------------- helpers
Min(S) == CHOOSE x \in S : \A y \in S : x <= y

RECURSIVE SeqOf(_)
SeqOf(S) == IF S = {} THEN <<>>
            ELSE LET m == Min(S) IN <<m>> \o SeqOf(S \ {m})

Range(q) == {q[i] : i \in 1..Len(q)}

\* query(...).first(): the row with the lowest id among the matches, or None
First(S) == IF S = {} THEN None ELSE Min(S)

Position == [ticket : Tickets, profit : Profits]

RECURSIVE SeqsUpTo(_)
SeqsUpTo(n) == IF n = 0 THEN {<<>>}
               ELSE LET P == SeqsUpTo(n - 1)
                    IN P \cup {Append(q, x) : q \in {p \in P : Len(p) = n - 1}, x \in Position}

Snapshots == SeqsUpTo(MaxPositions)

TicketsOf(positions) == {positions[i].ticket : i \in 1..Len(positions)}

\* ConnectionManager.is_client_connected
is_client_connected(conn, u) == conn[u] # None

\* generate_copy_hash: SHA-256 of "name_ticket_opentime", taken as injective
generate_copy_hash(name, ticket, open_time) == <<name, ticket, open_time>>

NoHash == <<>>

\* CopyTrade joined with Follow on follower_id
OwnedBy(ct, u) == follows[ct.follow_id].follower_id = u

OpenTicketsOf(tr, u) ==
    {tr[i].ticket : i \in {k \in 1..Len(tr) : tr[k].user_id = u /\ tr[k].status = "open"}}


\* ------------------------------------------------- coroutine context
\* A running handler works on a context c: the tables and hub state it
\* reads and writes, the commands delivered, and its stack of frames.
Top(c) == c.stack[Len(c.stack)]
Pop(c) == [c EXCEPT !.stack = SubSeq(@, 1, Len(@) - 1)]
SetTop(c, f) == [c EXCEPT !.stack[Len(c.stack)] = f]
Push(c, f) == [c EXCEPT !.stack = Append(@, f)]

\* a hub that keeps the channel it already holds for the user
connect_client_KeepFirst(conn, ws, u) ==
    IF conn[u] # None THEN conn ELSE [conn EXCEPT ![u] = ws]

\* ConnectionManager.connect_client: the websocket replaces the user's entry
connect_client(conn, ws, u) == [conn EXCEPT ![u] = ws]

\* ConnectionManager.disconnect_client: only the current websocket is removed
disconnect_client(conn, ws, u) ==
    IF conn[u] # None /\ conn[u] = ws THEN [conn EXCEPT ![u] = None] ELSE conn

\* create_copy_trade, send_trade_command returned False
MarkSendFailed(c, ct) ==
    [c EXCEPT !.copy_trades[ct].status = "failed",
              !.copy_trades[ct].error_message = "Failed to send command to client"]

\* ConnectionManager.send_trade_command up to "await websocket.send_text":
\* returns False at once without a connection, otherwise the caller is
\* suspended in the send (frame "sending").
send_trade_command(c, to, cmd, mark_failed) ==
    IF c.conn[to] = None
    THEN IF mark_failed THEN MarkSendFailed(c, cmd.copy_trade_id) ELSE c
    ELSE Push(c, [op |-> "sending", to |-> to, ws |-> c.conn[to], cmd |-> cmd,
                  mark_failed |-> mark_failed])

\* a send that books the closure in the ledger as soon as a close_trade is out
FinishSend_Predicting(c, ok) ==
    LET f == Top(c)
        c1 == Pop(c)
    IN IF ok
       THEN IF f.cmd.type = "close_trade"
            THEN [c1 EXCEPT !.sent = Append(@, f.cmd),
                            !.copy_trades[f.cmd.copy_trade_id].status = "closed"]
            ELSE [c1 EXCEPT !.sent = Append(@, f.cmd)]
       ELSE LET c2 == [c1 EXCEPT !.conn = disconnect_client(@, f.ws, f.to)]
            IN IF f.mark_failed THEN MarkSendFailed(c2, f.cmd.copy_trade_id) ELSE c2

\* send_trade_command after the await: delivered, or the exception branch
FinishSend(c, ok) ==
    LET f == Top(c)
        c1 == Pop(c)
    IN IF ok
       THEN [c1 EXCEPT !.sent = Append(@, f.cmd)]
       ELSE LET c2 == [c1 EXCEPT !.conn = disconnect_client(@, f.ws, f.to)]
            IN IF f.mark_failed THEN MarkSendFailed(c2, f.cmd.copy_trade_id) ELSE c2

create_copy_trade(c, fid, ticket) ==
    LET follow == follows[fid]
        master_trade == First({i \in 1..Len(c.trades) :
                                  /\ c.trades[i].ticket = ticket
                                  /\ c.trades[i].user_id = follow.following_id
                                  /\ c.trades[i].status = "open"})
    IN IF master_trade = None THEN c
       ELSE IF ~is_client_connected(c.conn, follow.follower_id) THEN c
       ELSE LET copy_hash == generate_copy_hash(users[follow.following_id].username,
                                                ticket, c.trades[master_trade].open_time)
                row == [master_trade_id |-> master_trade, follower_trade_id |-> None,
                        follow_id |-> fid, master_ticket |-> ticket,
                        follower_ticket |-> None, copy_hash |-> copy_hash,
                        status |-> "pending", error_message |-> "", retry_count |-> 0]
                c1 == [c EXCEPT !.copy_trades = Append(@, row)]
                cmd == [type |-> "execute_trade", to |-> follow.follower_id,
                        copy_trade_id |-> Len(c1.copy_trades), copy_hash |-> copy_hash,
                        master_ticket |-> ticket, ticket |-> None, reason |-> "copy"]
            IN send_trade_command(c1, follow.follower_id, cmd, TRUE)

\* process_new_master_trade: the list of active follows is read once
process_new_master_trade(c, u, ticket) ==
    IF ~users[u].is_master_trader THEN c
    ELSE LET followers == SeqOf({f \in 1..Len(follows) :
                                   follows[f].following_id = u /\ follows[f].is_active})
         IN IF followers = <<>> THEN c
            ELSE Push(c, [op |-> "fanout", ticket |-> ticket, follows |-> followers, j |-> 1])

\* observation: what one call of create_copy_trade from the fan-out did
FanEntry(c, c1, fid, ticket) ==
    LET follower == follows[fid].follower_id
        created == Len(c1.copy_trades) - Len(c.copy_trades)
        id == Len(c1.copy_trades)
    IN [ticket |-> ticket, follow |-> fid,
        connected |-> is_client_connected(c.conn, follower),
        created |-> created,
        dispatched |-> /\ created = 1
                       /\ Top(c1).op = "sending"
                       /\ Top(c1).to = follower
                       /\ Top(c1).cmd.type = "execute_trade"
                       /\ Top(c1).cmd.copy_trade_id = id
                       /\ Top(c1).cmd.copy_hash = c1.copy_trades[id].copy_hash
                       /\ c1.copy_trades[id].status = "pending"]

StepFanout(c) ==
    LET f == Top(c)
    IN IF f.j > Len(f.follows) THEN Pop(c)
       ELSE LET fid == f.follows[f.j]
                c1 == create_copy_trade(SetTop(c, [f EXCEPT !.j = @ + 1]), fid, f.ticket)
            IN IF c.stack[1].audit
               THEN [c1 EXCEPT !.stack[1].fan = Append(@, FanEntry(c, c1, fid, f.ticket))]
               ELSE c1

\* backfill_copy_trades_for_follower
backfill_copy_trades_for_follower(c, u) ==
    LET fs == SeqOf({f \in 1..Len(follows) :
                       follows[f].follower_id = u /\ follows[f].is_active})
    IN IF fs = <<>> THEN c
       ELSE Push(c, [op |-> "backfill", user |-> u, ws |-> c.conn[u], follows |-> fs, j |-> 1,
                     loaded |-> FALSE, mts |-> <<>>, k |-> 1, audit |-> limits.audit,
                     log |-> <<>>])

\* "check if we already have a copy trade for this master ticket for this
\* follower in pending/executed"
ExistingCopy_ExecutedOnly(c, mt, fid) ==
    \E i \in 1..Len(c.copy_trades) :
        /\ c.copy_trades[i].master_trade_id = mt
        /\ c.copy_trades[i].follow_id = fid
        /\ c.copy_trades[i].status = "executed"

ExistingCopy(c, mt, fid) ==
    \E i \in 1..Len(c.copy_trades) :
        /\ c.copy_trades[i].master_trade_id = mt
        /\ c.copy_trades[i].follow_id = fid
        /\ c.copy_trades[i].status \in {"pending", "executed"}

\* observation of one pass of the backfill loop over an open master trade:
\* what the ledger and the hub held when the trade was reached and what the
\* pass did (c before, c1 after)
BackfillEntry(c, c1, fid, mt) ==
    LET follower == follows[fid].follower_id
        id == Len(c1.copy_trades)
    IN [trade |-> mt, follow |-> fid,
        live |-> {i \in 1..Len(c.copy_trades) :
                     /\ c.copy_trades[i].master_trade_id = mt
                     /\ c.copy_trades[i].follow_id = fid
                     /\ c.copy_trades[i].status \in {"pending", "executed"}},
        open |-> c.trades[mt].status = "open",
        connected |-> is_client_connected(c.conn, follower),
        created |-> Len(c1.copy_trades) - Len(c.copy_trades),
        dispatched |-> /\ Len(c1.copy_trades) = Len(c.copy_trades) + 1
                       /\ Top(c1).op = "sending"
                       /\ Top(c1).to = follower
                       /\ Top(c1).cmd.type = "execute_trade"
                       /\ Top(c1).cmd.copy_trade_id = id
                       /\ c1.copy_trades[id].master_trade_id = mt
                       /\ c1.copy_trades[id].follow_id = fid]

\* the backfill has run to its end
BackfillDone(c) ==
    LET f == Top(c)
    IN IF f.audit
       THEN [Pop(c) EXCEPT !.done = [user |-> None, attached |-> f.user, backfill |-> f.log]]
       ELSE Pop(c)

StepBackfill(c) ==
    LET f == Top(c)
        next_follow == [f EXCEPT !.j = @ + 1, !.loaded = FALSE, !.mts = <<>>, !.k = 1]
    IN IF f.j > Len(f.follows) THEN BackfillDone(c)
       ELSE LET fid == f.follows[f.j]
                master_id == follows[fid].following_id
            IN IF ~f.loaded
               THEN LET open_master_trades ==
                            SeqOf({i \in 1..Len(c.trades) :
                                     c.trades[i].user_id = master_id /\ c.trades[i].status = "open"})
                    IN IF ~users[master_id].is_master_trader \/ open_master_trades = <<>>
                       THEN SetTop(c, next_follow)
                       ELSE SetTop(c, [f EXCEPT !.loaded = TRUE, !.mts = open_master_trades, !.k = 1])
               ELSE IF f.k > Len(f.mts) THEN SetTop(c, next_follow)
               ELSE LET mt == f.mts[f.k]
                        existing == ExistingCopy(c, mt, fid)
                        c1 == SetTop(c, [f EXCEPT !.k = @ + 1])
                        c2 == IF existing THEN c1
                              ELSE create_copy_trade(c1, fid, c.trades[mt].ticket)
                    IN IF f.audit
                       THEN [c2 EXCEPT !.stack[1].log = Append(@, BackfillEntry(c, c2, fid, mt))]
                       ELSE c2

\* ------------------------------------------------- close fan-out
\* observation carried by a close command: the snapshot whose handler sent it
\* (close fan-out is only called from handle_positions_update)
Origin(c) ==
    LET root == c.stack[1]
    IN [user |-> root.user, market_open |-> root.market_open,
        empty |-> (root.positions = <<>>)]

CloseCommand(c, ct, ticket, reason, master) ==
    [type |-> "close_trade", to |-> follows[c.copy_trades[ct].follow_id].follower_id,
     copy_trade_id |-> ct, copy_hash |-> c.copy_trades[ct].copy_hash,
     master_ticket |-> c.copy_trades[ct].master_ticket, ticket |-> ticket,
     reason |-> reason, master_connected |-> is_client_connected(c.conn, master),
     origin |-> Origin(c)]

\* a follower_ticket that int() does not accept: the reply's ticket is stored
\* as str(ticket) whatever it was
Malformed == 0

\* observation: the executed copies of the closed tickets whose follower is
\* connected when the close fan-out starts
Due(c, u, closed_master_tickets) ==
    {i \in 1..Len(c.copy_trades) :
        /\ follows[c.copy_trades[i].follow_id].following_id = u
        /\ c.copy_trades[i].status = "executed"
        /\ c.copy_trades[i].master_ticket \in closed_master_tickets
        /\ is_client_connected(c.conn, follows[c.copy_trades[i].follow_id].follower_id)}

\* close_specific_follower_trades: every follow of the master, active or not
close_specific_follower_trades(c, u, closed_master_tickets) ==
    IF ~users[u].is_master_trader THEN c
    ELSE Push(IF c.stack[1].audit
              THEN [c EXCEPT !.stack[1].due = Due(c, u, closed_master_tickets)]
              ELSE c,
              [op |-> "close_specific", master |-> u, tickets |-> closed_master_tickets,
                  follows |-> SeqOf({f \in 1..Len(follows) : follows[f].following_id = u}),
                  j |-> 1, loaded |-> FALSE, cts |-> <<>>, k |-> 1])

StepCloseSpecific(c) ==
    LET f == Top(c)
        next_follow == [f EXCEPT !.j = @ + 1, !.loaded = FALSE, !.cts = <<>>, !.k = 1]
    IN IF f.j > Len(f.follows) THEN Pop(c)
       ELSE LET fid == f.follows[f.j]
                follower == follows[fid].follower_id
            IN IF ~f.loaded
               THEN LET follower_copy_trades ==
                            SeqOf({i \in 1..Len(c.copy_trades) :
                                     /\ c.copy_trades[i].follow_id = fid
                                     /\ c.copy_trades[i].status = "executed"
                                     /\ c.copy_trades[i].master_ticket \in f.tickets})
                    IN IF follower_copy_trades # <<>> /\ is_client_connected(c.conn, follower)
                       THEN SetTop(c, [f EXCEPT !.loaded = TRUE, !.cts = follower_copy_trades, !.k = 1])
                       ELSE SetTop(c, next_follow)
               ELSE IF f.k > Len(f.cts) THEN SetTop(c, next_follow)
               ELSE LET ct == f.cts[f.k]
                        c1 == SetTop(c, [f EXCEPT !.k = @ + 1])
                    IN IF c.copy_trades[ct].follower_ticket = Malformed
                       THEN Pop(c)
                       ELSE send_trade_command(c1, follower,
                               CloseCommand(c1, ct, c1.copy_trades[ct].follower_ticket,
                                            "master_closed_specific", f.master), FALSE)

\* process_master_positions_cleared: executed copies under this master whose
\* linked follower trade is open (the join on follower_trade_id)
ClearedCandidates(c, u) ==
    {i \in 1..Len(c.copy_trades) :
        /\ follows[c.copy_trades[i].follow_id].following_id = u
        /\ c.copy_trades[i].status = "executed"
        /\ c.copy_trades[i].follower_trade_id # None
        /\ c.trades[c.copy_trades[i].follower_trade_id].status = "open"}

process_master_positions_cleared(c, u) ==
    IF ~users[u].is_master_trader THEN c
    ELSE LET open_copy_trades == SeqOf(ClearedCandidates(c, u))
         IN IF open_copy_trades = <<>> THEN c
            ELSE Push(c, [op |-> "cleared", master |-> u, cts |-> open_copy_trades, k |-> 1])

StepCleared(c) ==
    LET f == Top(c)
    IN IF f.k > Len(f.cts) THEN Pop(c)
       ELSE LET ct == f.cts[f.k]
                follower_id == follows[c.copy_trades[ct].follow_id].follower_id
                follower_ticket == c.copy_trades[ct].follower_ticket
                ticket_to_send == IF follower_ticket # None
                                     /\ follower_ticket \in OpenTicketsOf(c.trades, follower_id)
                                  THEN follower_ticket ELSE None
                c1 == SetTop(c, [f EXCEPT !.k = @ + 1])
            IN IF is_client_connected(c.conn, follower_id)
               THEN send_trade_command(c1, follower_id,
                        CloseCommand(c1, ct, ticket_to_send, "master_cleared_all", f.master), FALSE)
               ELSE c1

\* ------------------------------------------------- handle_positions_update
\* "Link any pending copy trade record for this follower by ticket"
LinkCopyTrade(c, u, ticket, trade_id) ==
    LET ct == First({i \in 1..Len(c.copy_trades) :
                        /\ OwnedBy(c.copy_trades[i], u)
                        /\ c.copy_trades[i].follower_ticket = ticket})
    IN IF ct # None /\ c.copy_trades[ct].follower_trade_id = None
       THEN [c EXCEPT !.copy_trades[ct].follower_trade_id = trade_id,
                      !.copy_trades[ct].status =
                          IF @ = "pending" THEN "executed" ELSE @]
       ELSE c

\* the update of an existing trade row from a position
UpdateExisting(t, pos) ==
    LET t1 == [t EXCEPT !.status = "open"]
    IN [t1 EXCEPT !.unrealized_profit = pos.profit,
                  !.realized_profit = IF t1.status # "closed" THEN 0 ELSE t1.realized_profit,
                  !.close_time = None,
                  !.close_price = None]

NewTrade(u, pos) ==
    [user_id |-> u, ticket |-> pos.ticket, status |-> "open", open_time |-> OpenTime,
     unrealized_profit |-> pos.profit, realized_profit |-> None,
     close_time |-> None, close_price |-> None]

\* "Mark trade as closed"
MarkClosed(t) ==
    [t EXCEPT !.status = "closed",
              !.close_time = Now,
              !.close_price = Price,
              !.realized_profit = IF t.unrealized_profit # 0 THEN t.unrealized_profit ELSE @,
              !.unrealized_profit = IF t.unrealized_profit # 0 THEN 0 ELSE @]

\* closure detection without the hub check
ClosureGate_NoHub(c, u, market_open) ==
    users[u].is_master_trader /\ market_open

\* the guard of closure detection
ClosureGate(c, u, market_open) ==
    users[u].is_master_trader /\ market_open /\ is_client_connected(c.conn, u)

\* the mass-clear path taken whatever the market status
ClearGate_NoMarket(c, u, market_open) ==
    users[u].is_master_trader

\* the guard of the mass-clear path for an empty positions list
ClearGate(c, u, market_open) ==
    market_open /\ users[u].is_master_trader

\* trades open in the store but missing from the snapshot
MissingTrades(c, u, positions) ==
    {i \in 1..Len(c.trades) :
        /\ c.trades[i].user_id = u
        /\ c.trades[i].status = "open"
        /\ c.trades[i].ticket \notin TicketsOf(positions)}

\* one position of the loop
ProcessPosition(c, f) ==
    LET pos == f.positions[f.i]
        u == f.user
        existing_trade == First({i \in 1..Len(c.trades) :
                                    c.trades[i].user_id = u /\ c.trades[i].ticket = pos.ticket})
    IN IF existing_trade # None
       THEN LET c1 == [c EXCEPT !.trades[existing_trade] = UpdateExisting(@, pos)]
            IN LinkCopyTrade(SetTop(c1, [f EXCEPT !.i = @ + 1]), u, pos.ticket, existing_trade)
       ELSE LET c1 == [c EXCEPT !.trades = Append(@, NewTrade(u, pos))]
                id == Len(c1.trades)
                f1 == [f EXCEPT !.i = @ + 1,
                                !.opened = IF users[u].is_master_trader
                                           THEN @ \cup {pos.ticket} ELSE @]
                c2 == LinkCopyTrade(SetTop(c1, f1), u, pos.ticket, id)
            IN process_new_master_trade(c2, u, pos.ticket)

DetectClosures(c, f) ==
    LET u == f.user
        missing_trades == MissingTrades(c, u, f.positions)
        closed_tickets == {c.trades[i].ticket : i \in missing_trades}
        c1 == [c EXCEPT !.trades = [i \in 1..Len(@) |->
                                      IF i \in missing_trades THEN MarkClosed(@[i]) ELSE @[i]]]
        f1 == [f EXCEPT !.phase = "end", !.closed = closed_tickets]
    IN IF missing_trades # {}
       THEN close_specific_follower_trades(SetTop(c1, f1), u, closed_tickets)
       ELSE SetTop(c1, f1)

StepPositions(c) ==
    LET f == Top(c)
    IN CASE f.phase = "start" ->
              IF f.positions = <<>>
              THEN IF ClearGate(c, f.user, f.market_open)
                   THEN process_master_positions_cleared(
                            SetTop(c, [f EXCEPT !.phase = "end", !.cleared = TRUE,
                                                !.connected = is_client_connected(c.conn, f.user)]),
                            f.user)
                   ELSE SetTop(c, [f EXCEPT !.phase = "end",
                                            !.connected = is_client_connected(c.conn, f.user)])
              ELSE SetTop(c, [f EXCEPT !.phase = "loop"])
         [] f.phase = "loop" ->
              IF f.i > Len(f.positions)
              THEN SetTop(c, [f EXCEPT !.phase = "gate"])
              ELSE ProcessPosition(c, f)
         [] f.phase = "gate" ->
              LET f1 == [f EXCEPT !.connected = is_client_connected(c.conn, f.user)]
              IN IF ClosureGate(c, f.user, f.market_open)
                 THEN DetectClosures(c, f1)
                 ELSE SetTop(c, [f1 EXCEPT !.phase = "end"])
         [] OTHER ->
              [Pop(c) EXCEPT !.done =
                  IF f.audit
                  THEN [user |-> f.user, empty |-> (f.positions = <<>>),
                        market_open |-> f.market_open, connected |-> f.connected,
                        closed |-> f.closed, cleared |-> f.cleared,
                        positions |-> f.positions, open_before |-> f.open_before,
                        opened |-> f.opened,
                        open_after |-> OpenTicketsOf(c.trades, f.user),
                        tracked |-> f.tracked, before |-> f.before, after |-> c.trades,
                        fan |-> f.fan, due |-> f.due]
                  ELSE [user |-> f.user, empty |-> (f.positions = <<>>),
                        market_open |-> f.market_open, connected |-> f.connected,
                        closed |-> f.closed, cleared |-> f.cleared]]

PositionsFrame(u, positions, market_open, tracked, before) ==
    [op |-> "positions", user |-> u, positions |-> positions, market_open |-> market_open,
     phase |-> "start", i |-> 1, open_before |-> OpenTicketsOf(trades, u),
     connected |-> FALSE, opened |-> {}, closed |-> {}, cleared |-> FALSE,
     tracked |-> tracked, before |-> before, audit |-> limits.audit, fan |-> <<>>,
     due |-> {}]

\* ------------------------------------------------- scheduler
StepFrame(c) ==
    LET op == Top(c).op
    IN CASE op = "positions" -> StepPositions(c)
         [] op = "fanout" -> StepFanout(c)
         [] op = "backfill" -> StepBackfill(c)
         [] op = "close_specific" -> StepCloseSpecific(c)
         [] OTHER -> StepCleared(c)

\* run a coroutine until it finishes or is suspended in a send
RECURSIVE Exec(_)
Exec(c) == IF c.stack = <<>> \/ Top(c).op = "sending" THEN c
           ELSE CHOOSE r \in {Exec(d) : d \in {StepFrame(c)}} : TRUE

\* ------------------------------------------------- state machine
NoDone == [user |-> None]
NoStreak == [user |-> None]

Budget(t, n, s, a) == [tasks |-> t, copies |-> n, sent |-> s, audit |-> a]

\* an API key "ca_{user id}_..._{timestamp}": the user id it was generated for
\* and a serial standing for the random and timestamp parts
Keys == Users \X (1..MaxKeys)

NoKey == <<>>

EmptyCache == [k \in {} |-> None]

\* a users row as register leaves it, before or after the key is generated
Account(u, api_key) ==
    [username |-> u, is_master_trader |-> (u = 1), api_key |-> api_key, is_active |-> TRUE,
     last_login_ip |-> None, last_seen |-> Now]

Registered(us) == {u \in Users : us[u].api_key # NoKey}

InitFrom(budget, us, fs) ==
    /\ limits = budget
    /\ users = us
    /\ user_api_keys = EmptyCache
    /\ issued = [u \in Users |-> IF us[u].api_key = NoKey THEN <<>> ELSE <<us[u].api_key>>]
    /\ follows = fs
    /\ active_connections = [u \in Users |-> {}]
    /\ pushes = <<>>
    /\ mt5_connections = [u \in {} |-> None]
    /\ trades = <<>>
    /\ copy_trades = <<>>
    /\ client_connections = [u \in Users |-> None]
    /\ sockets = {}
    /\ tasks = <<>>
    /\ sent = <<>>
    /\ done = NoDone
    /\ streak = NoStreak

\* three registered users, user 1 a master followed by users 2 and 3
InitWith(budget) ==
    InitFrom(budget, [u \in Users |-> Account(u, <<u, 1>>)],
             << [follower_id |-> 2, following_id |-> 1, is_active |-> TRUE],
                [follower_id |-> 3, following_id |-> 1, is_active |-> TRUE] >>)

Context(stack) ==
    [trades |-> trades, copy_trades |-> copy_trades, conn |-> client_connections,
     sent |-> sent, done |-> NoDone, stack |-> stack]

RemoveAt(q, i) == SubSeq(q, 1, i - 1) \o SubSeq(q, i + 1, Len(q))

\* commit the result of running a coroutine; a suspended one joins tasks
Commit(c, rest) ==
    /\ Len(c.copy_trades) <= limits.copies
    /\ trades' = c.trades
    /\ copy_trades' = c.copy_trades
    /\ client_connections' = c.conn
    /\ sent' = c.sent
    /\ done' = c.done
    /\ tasks' = IF c.stack = <<>> THEN rest ELSE Append(rest, c.stack)
    /\ Len(tasks') <= limits.tasks

Tracked(stack) == stack[1].op = "positions" /\ stack[1].tracked

\* POST /api/ea/data with type positions_update, after authentication
PositionsUpdate(u, positions, market_open) ==
    /\ Len(sent) < limits.sent
    /\ LET free == limits.audit /\ \A i \in 1..Len(tasks) : ~Tracked(tasks[i])
           rep == /\ free
                  /\ streak.user = u
                  /\ streak.positions = positions
                  /\ streak.market_open = market_open
           c == Exec(Context(<<PositionsFrame(u, positions, market_open, free,
                                              IF rep THEN trades ELSE <<>>)>>))
       IN /\ Commit(c, tasks)
          /\ streak' = IF free
                       THEN [user |-> u, positions |-> positions, market_open |-> market_open,
                             repeat |-> rep, sent_before |-> Len(sent)]
                       ELSE NoStreak
    /\ UNCHANGED <<users, user_api_keys, issued, follows, limits, active_connections, pushes, mt5_connections, sockets>>

\* a closed trade row made from a history deal
HistoryTrade(u, deal) ==
    [user_id |-> u, ticket |-> deal.ticket, status |-> "closed", open_time |-> OpenTime,
     unrealized_profit |-> 0, realized_profit |-> deal.profit,
     close_time |-> Now, close_price |-> Price]

\* a history update that also rewrites the owner's rows whose ticket a deal names
handle_history_update_Upsert(tr, u, history) ==
    LET existing_tickets == {tr[i].ticket : i \in {k \in 1..Len(tr) : tr[k].user_id = u}}
        new == SelectSeq(history, LAMBDA deal : deal.ticket \notin existing_tickets)
        named == {history[d].ticket : d \in 1..Len(history)}
        kept == [i \in 1..Len(tr) |->
                    IF tr[i].user_id = u /\ tr[i].ticket \in named
                    THEN [tr[i] EXCEPT !.status = "closed", !.close_time = Now,
                                       !.close_price = Price]
                    ELSE tr[i]]
    IN kept \o [k \in 1..Len(new) |-> HistoryTrade(u, new[k])]

\* handle_history_update: the owner's tickets are read once, before the loop
handle_history_update(tr, u, history) ==
    LET existing_tickets == {tr[i].ticket : i \in {k \in 1..Len(tr) : tr[k].user_id = u}}
        new == SelectSeq(history, LAMBDA deal : deal.ticket \notin existing_tickets)
    IN tr \o [k \in 1..Len(new) |-> HistoryTrade(u, new[k])]

\* POST /api/ea/data with type history_update, after authentication
HistoryUpdate(u, history) ==
    /\ trades' = handle_history_update(trades, u, history)
    /\ trades' # trades
    /\ done' = NoDone
    /\ streak' = NoStreak
    /\ UNCHANGED <<users, user_api_keys, issued, follows, limits, active_connections, pushes, mt5_connections, copy_trades, client_connections, sockets, tasks, sent>>

\* a suspended send completes: delivered when the websocket is still up
Resume(i) ==
    /\ i \in 1..Len(tasks)
    /\ LET stack == tasks[i]
           f == stack[Len(stack)]
           ok == [ws |-> f.ws, user |-> f.to, up |-> TRUE] \in sockets
       IN /\ \E c \in {Exec(FinishSend(Context(stack), ok))} : Commit(c, RemoveAt(tasks, i))
          /\ streak' = IF Tracked(stack) THEN streak ELSE NoStreak
    /\ UNCHANGED <<users, user_api_keys, issued, follows, limits, active_connections, pushes, mt5_connections, sockets>>

\* websockets a suspended coroutine still refers to
HeldWs(u) ==
    UNION {{tasks[i][k].ws : k \in {n \in 1..Len(tasks[i]) :
                                      /\ tasks[i][n].op \in {"sending", "backfill"}
                                      /\ IF tasks[i][n].op = "sending"
                                         THEN tasks[i][n].to = u
                                         ELSE tasks[i][n].user = u}} : i \in 1..Len(tasks)}

\* a new WebSocket object: an identity no live reference uses
FreshWs(u) ==
    Min((1..(MaxChannels + limits.tasks + 1)) \ (HeldWs(u) \cup {s.ws : s \in {x \in sockets : x.user = u}}))

\* /ws/client/{user_id}: connect_client, then backfill; the user has fewer
\* than cap websockets open
ClientAttachUpTo(u, cap) ==
    /\ Cardinality({s \in sockets : s.user = u}) < cap
    /\ Len(sent) < limits.sent
    /\ sockets' = sockets \cup {[ws |-> FreshWs(u), user |-> u, up |-> TRUE]}
    /\ LET c0 == Context(<<>>)
       IN \E c \in {Exec(backfill_copy_trades_for_follower(
                         [c0 EXCEPT !.conn = connect_client(@, FreshWs(u), u)], u))} :
              Commit(c, tasks)
    /\ streak' = NoStreak
    /\ UNCHANGED <<users, user_api_keys, issued, follows, limits, active_connections, pushes, mt5_connections>>

ClientAttach(u) == ClientAttachUpTo(u, MaxSockets)

\* the peer's connection goes away; the server has not noticed yet
PeerClose(s) ==
    /\ s \in sockets /\ s.up
    /\ sockets' = (sockets \ {s}) \cup {[s EXCEPT !.up = FALSE]}
    /\ done' = NoDone
    /\ streak' = NoStreak
    /\ UNCHANGED <<users, user_api_keys, issued, follows, limits, active_connections, pushes, mt5_connections, trades, copy_trades, client_connections, tasks, sent>>

InBackfill(s) ==
    \E i \in 1..Len(tasks) : /\ tasks[i][1].op = "backfill"
                             /\ tasks[i][1].user = s.user
                             /\ tasks[i][1].ws = s.ws

\* WebSocketDisconnect in the endpoint's receive loop: disconnect_client
Detach(s) ==
    /\ ~InBackfill(s)
    /\ sockets' = sockets \ {s}
    /\ client_connections' = disconnect_client(client_connections, s.ws, s.user)
    /\ done' = NoDone
    /\ streak' = NoStreak
    /\ UNCHANGED <<users, user_api_keys, issued, follows, limits, active_connections, pushes, mt5_connections, trades, copy_trades, tasks, sent>>

\* the server notices a closed connection
ClientDetach(s) == s \in sockets /\ ~s.up /\ Detach(s)

\* the client closes and the server notices at once
ClientDisconnect(s) == s \in sockets /\ s.up /\ Detach(s)

\* ------------------------------------------------- confirmations
Hashes == {copy_trades[i].copy_hash : i \in 1..Len(copy_trades)}

\* a frame read from a client websocket by the endpoint's receive loop
Receiving(u) == \E s \in sockets : s.user = u /\ ~InBackfill(s)

\* the lookup without the join on the follower's follows
ExecutionMatch_AnyOwner(u, copy_hash, master_ticket) ==
    IF copy_hash # NoHash
    THEN First({i \in 1..Len(copy_trades) :
                   /\ copy_trades[i].copy_hash = copy_hash
                   /\ copy_trades[i].status = "pending"})
    ELSE First({i \in 1..Len(copy_trades) :
                   /\ master_ticket # None
                   /\ copy_trades[i].master_ticket = master_ticket
                   /\ copy_trades[i].status = "pending"})

\* the pending record a trade_executed with success=true is matched to
ExecutionMatch(u, copy_hash, master_ticket) ==
    IF copy_hash # NoHash
    THEN First({i \in 1..Len(copy_trades) :
                   /\ copy_trades[i].copy_hash = copy_hash
                   /\ copy_trades[i].status = "pending"
                   /\ OwnedBy(copy_trades[i], u)})
    ELSE First({i \in 1..Len(copy_trades) :
                   /\ master_ticket # None
                   /\ copy_trades[i].master_ticket = master_ticket
                   /\ copy_trades[i].status = "pending"
                   /\ OwnedBy(copy_trades[i], u)})

\* the failure lookup without the join on the follower's follows
FailureMatch_AnyOwner(u, master_ticket) ==
    IF master_ticket = None THEN None
    ELSE First({i \in 1..Len(copy_trades) :
                   /\ copy_trades[i].master_ticket = master_ticket
                   /\ copy_trades[i].status = "pending"})

\* the pending record a trade_executed with success=false is matched to
FailureMatch(u, master_ticket) ==
    IF master_ticket = None THEN None
    ELSE First({i \in 1..Len(copy_trades) :
                   /\ copy_trades[i].master_ticket = master_ticket
                   /\ copy_trades[i].status = "pending"
                   /\ OwnedBy(copy_trades[i], u)})

\* handle_copy_trade_execution_result
handle_copy_trade_execution_result(u, success, ticket, copy_hash, master_ticket) ==
    IF success /\ ticket # None
    THEN LET ct == ExecutionMatch(u, copy_hash, master_ticket)
             follower_trade == First({i \in 1..Len(trades) :
                                         trades[i].user_id = u /\ trades[i].ticket = ticket})
         IN IF ct = None THEN copy_trades
            ELSE [copy_trades EXCEPT ![ct].follower_ticket = ticket,
                                     ![ct].status = "executed",
                                     ![ct].follower_trade_id =
                                         IF follower_trade # None THEN follower_trade ELSE @]
    ELSE LET ct == FailureMatch(u, master_ticket)
         IN IF ct = None THEN copy_trades
            ELSE [copy_trades EXCEPT ![ct].status = "failed",
                                     ![ct].error_message = "Execution failed",
                                     ![ct].retry_count = @ + 1]

\* the lookup by the reported ticket alone
CloseMatch_ByTicket(u, ticket, copy_hash) ==
    First({i \in 1..Len(copy_trades) :
              /\ copy_trades[i].follower_ticket = ticket
              /\ copy_trades[i].status = "executed"
              /\ OwnedBy(copy_trades[i], u)})

\* the executed record a trade_closed with success=true is matched to
CloseMatch(u, ticket, copy_hash) ==
    IF copy_hash # NoHash
    THEN First({i \in 1..Len(copy_trades) :
                   /\ copy_trades[i].copy_hash = copy_hash
                   /\ copy_trades[i].status = "executed"
                   /\ OwnedBy(copy_trades[i], u)})
    ELSE First({i \in 1..Len(copy_trades) :
                   /\ copy_trades[i].follower_ticket = ticket
                   /\ copy_trades[i].status = "executed"
                   /\ OwnedBy(copy_trades[i], u)})

\* handle_copy_trade_close_result
handle_copy_trade_close_result(u, success, ticket, copy_hash) ==
    IF success /\ ticket # None
    THEN LET ct == CloseMatch(u, ticket, copy_hash)
         IN IF ct = None THEN copy_trades
            ELSE [copy_trades EXCEPT ![ct].status = "closed"]
    ELSE copy_trades

\* client frame {type: "trade_executed", data: {...}}
TradeExecuted(u, success, ticket, copy_hash, master_ticket) ==
    /\ Receiving(u)
    /\ copy_trades' = handle_copy_trade_execution_result(u, success, ticket, copy_hash,
                                                         master_ticket)
    /\ copy_trades' # copy_trades
    /\ done' = NoDone
    /\ streak' = NoStreak
    /\ UNCHANGED <<users, user_api_keys, issued, follows, limits, active_connections, pushes, mt5_connections, trades, client_connections, sockets, tasks, sent>>

\* client frame {type: "trade_closed", data: {...}}
TradeClosed(u, success, ticket, copy_hash) ==
    /\ Receiving(u)
    /\ copy_trades' = handle_copy_trade_close_result(u, success, ticket, copy_hash)
    /\ copy_trades' # copy_trades
    /\ done' = NoDone
    /\ streak' = NoStreak
    /\ UNCHANGED <<users, user_api_keys, issued, follows, limits, active_connections, pushes, mt5_connections, trades, client_connections, sockets, tasks, sent>>

\* ------------------------------------------------- API keys
Max(S) == CHOOSE x \in S : \A y \in S : y <= x

\* generate_unique_api_key: a key for user_id that no row holds; its
\* timestamp part puts it after every key generated before
generate_unique_api_key(us, user_id) ==
    <<user_id, 1 + Max({0} \cup {us[u].api_key[2] : u \in Registered(us)})>>

CachePut(cache, k, u) == [x \in DOMAIN cache \cup {k} |-> IF x = k THEN u ELSE cache[x]]

\* db.query(User).filter(User.api_key == api_key).first(), None without a row
UserWithKey(us, api_key) ==
    IF \E u \in Users : us[u].api_key = api_key
    THEN CHOOSE u \in Users : us[u].api_key = api_key
    ELSE None

\* a lookup by the user id a key was generated for, whatever key the row holds
get_user_by_api_key_ByOwnerId(api_key, cache, us) ==
    IF api_key = NoKey \/ api_key[1] \notin Registered(us) \/ ~us[api_key[1]].is_active
    THEN [user |-> None, cache |-> cache]
    ELSE [user |-> api_key[1], cache |-> CachePut(cache, api_key, api_key[1])]

\* get_user_by_api_key: [user, cache]; user is None when the key is refused
get_user_by_api_key(api_key, cache, us) ==
    LET hit == /\ api_key \in DOMAIN cache
               /\ us[cache[api_key]].api_key = api_key
        user == UserWithKey(us, api_key)
    IN IF api_key = NoKey THEN [user |-> None, cache |-> cache]
       ELSE IF hit THEN [user |-> cache[api_key], cache |-> cache]
       ELSE IF user # None /\ us[user].api_key = api_key /\ us[user].is_active
       THEN [user |-> user, cache |-> CachePut(cache, api_key, user)]
       ELSE [user |-> None, cache |-> cache]

\* POST /api/auth/register: the row, then its key
register(u) ==
    /\ users[u].api_key = NoKey
    /\ Cardinality(UNION {Range(issued[x]) : x \in Users}) < MaxKeys
    /\ LET final_api_key == generate_unique_api_key(users, u)
       IN /\ users' = [users EXCEPT ![u] = Account(u, final_api_key)]
          /\ issued' = [issued EXCEPT ![u] = Append(@, final_api_key)]
    /\ done' = NoDone
    /\ streak' = NoStreak
    /\ UNCHANGED <<user_api_keys, follows, limits, active_connections, pushes, mt5_connections, trades, copy_trades, client_connections,
                   sockets, tasks, sent>>

\* a rotation that answers with the new key and leaves the row as it was
Rotated_KeepOld(us, u, new_api_key) == us

\* regenerate_api_key: the users table after the commit
Rotated(us, u, new_api_key) == [us EXCEPT ![u].api_key = new_api_key]

\* POST /api/user/regenerate-api-key for the session's user; the cache is
\* cleared at the end (clear_all_api_key_cache)
regenerate_api_key(u) ==
    /\ users[u].api_key # NoKey
    /\ Cardinality(UNION {Range(issued[x]) : x \in Users}) < MaxKeys
    /\ LET new_api_key == generate_unique_api_key(users, u)
       IN /\ users' = Rotated(users, u, new_api_key)
          /\ issued' = [issued EXCEPT ![u] = Append(@, new_api_key)]
    /\ user_api_keys' = EmptyCache
    /\ done' = NoDone
    /\ streak' = NoStreak
    /\ UNCHANGED <<follows, limits, active_connections, pushes, mt5_connections, trades, copy_trades, client_connections, sockets, tasks,
                   sent>>

\* POST /api/admin/clear-api-cache
clear_api_cache ==
    /\ user_api_keys # EmptyCache
    /\ user_api_keys' = EmptyCache
    /\ done' = NoDone
    /\ streak' = NoStreak
    /\ UNCHANGED <<users, issued, follows, limits, active_connections, pushes, mt5_connections, trades, copy_trades, client_connections,
                   sockets, tasks, sent>>

\* test_user_disable.py: the operator toggles is_active in the database
disable_user_test(u) ==
    /\ users[u].api_key # NoKey
    /\ users' = [users EXCEPT ![u].is_active = ~@]
    /\ done' = NoDone
    /\ streak' = NoStreak
    /\ UNCHANGED <<user_api_keys, issued, follows, limits, active_connections, pushes, mt5_connections, trades, copy_trades,
                   client_connections, sockets, tasks, sent>>

\* an admission that binds the address and stamps last_seen before it
\* compares the claimed identity
Admission_BindFirst(api_key, user_id, username, host, at) ==
    LET auth == get_user_by_api_key(api_key, user_api_keys, users)
        user == auth.user
        bound == [users EXCEPT ![user].last_login_ip = host, ![user].last_seen = at]
    IN IF api_key = NoKey
       THEN [status |-> 400, user |-> None, cache |-> user_api_keys, users |-> users]
       ELSE IF user = None
       THEN [status |-> 401, user |-> None, cache |-> auth.cache, users |-> users]
       ELSE IF user_id # None /\ user_id # user
       THEN [status |-> 403, user |-> user, cache |-> auth.cache, users |-> bound]
       ELSE IF username # None /\ username # users[user].username
       THEN [status |-> 403, user |-> user, cache |-> auth.cache, users |-> bound]
       ELSE [status |-> 200, user |-> user, cache |-> auth.cache, users |-> bound]

\* receive_client_data up to the dispatch on data_type: the status of the
\* answer and the users table and cache it leaves
Admission(api_key, user_id, username, host, at) ==
    LET auth == get_user_by_api_key(api_key, user_api_keys, users)
        user == auth.user
    IN IF api_key = NoKey
       THEN [status |-> 400, user |-> None, cache |-> user_api_keys, users |-> users]
       ELSE IF user = None
       THEN [status |-> 401, user |-> None, cache |-> auth.cache, users |-> users]
       ELSE IF user_id # None /\ user_id # user
       THEN [status |-> 403, user |-> user, cache |-> auth.cache, users |-> users]
       ELSE IF username # None /\ username # users[user].username
       THEN [status |-> 403, user |-> user, cache |-> auth.cache, users |-> users]
       ELSE [status |-> 200, user |-> user, cache |-> auth.cache,
             users |-> [users EXCEPT ![user].last_login_ip = host, ![user].last_seen = at]]

\* POST /api/ea/data with type history_update, from the request on
receive_client_data(api_key, user_id, username, host, at, history) ==
    /\ LET a == Admission(api_key, user_id, username, host, at)
       IN /\ users' = a.users
          /\ user_api_keys' = a.cache
          /\ trades' = IF a.status = 200 THEN handle_history_update(trades, a.user, history)
                       ELSE trades
          /\ done' = [user |-> None, status |-> a.status, api_key |-> api_key,
                      owner |-> a.user, cached |-> api_key \in DOMAIN user_api_keys]
    /\ streak' = NoStreak
    /\ UNCHANGED <<issued, follows, limits, active_connections, pushes, mt5_connections, copy_trades, client_connections, sockets, tasks,
                   sent>>

\* ------------------------------------------------- follow edges
\* db.query(Follow).filter(follower_id == u, following_id == m).first(),
\* as an index into follows, 0 without a row
ExistingFollow(fs, u, m) ==
    LET rows == {f \in 1..Len(fs) : fs[f].follower_id = u /\ fs[f].following_id = m}
    IN IF rows = {} THEN 0 ELSE CHOOSE f \in rows : \A g \in rows : f <= g

\* the follows table once u follows m: the row reactivated, or a new row
Followed(fs, u, m) ==
    LET f == ExistingFollow(fs, u, m)
    IN IF f # 0 THEN [fs EXCEPT ![f].is_active = TRUE]
       ELSE Append(fs, [follower_id |-> u, following_id |-> m, is_active |-> TRUE])

Quiet ==
    /\ done' = NoDone
    /\ streak' = NoStreak
    /\ UNCHANGED <<users, user_api_keys, issued, limits, active_connections, pushes, mt5_connections, trades, copy_trades,
                   client_connections, sockets, tasks, sent>>

\* POST /api/marketplace/follow/{trader_id} by the session's user
marketplace_follow_trader(u, trader_id) ==
    /\ users[trader_id].is_master_trader
    /\ users[trader_id].is_active
    /\ u # trader_id
    /\ LET f == ExistingFollow(follows, u, trader_id)
       IN IF f = 0 THEN TRUE ELSE ~follows[f].is_active
    /\ follows' = Followed(follows, u, trader_id)
    /\ Quiet

\* POST /api/follow/{master_id} by the authenticated user
follow_trader(u, master_id) ==
    /\ users[master_id].is_master_trader
    /\ follows' = Followed(follows, u, master_id)
    /\ follows' # follows
    /\ Quiet

\* DELETE /api/unfollow/{master_id} by the authenticated user
unfollow_trader(u, master_id) ==
    /\ ExistingFollow(follows, u, master_id) # 0
    /\ follows' = [follows EXCEPT ![ExistingFollow(follows, u, master_id)].is_active = FALSE]
    /\ follows' # follows
    /\ Quiet

\* ------------------------------------------------- account data
MarginSentinel == 999999

\* a row of mt5_connections as handle_connection_status creates it
NewConnection(connected) ==
    [is_connected |-> connected, account_balance |-> 0, account_equity |-> 0,
     account_margin |-> 0, account_free_margin |-> 0, account_margin_level |-> 0,
     account_profit |-> 0]

\* POST /api/ea/data with type connection_status, after authentication
handle_connection_status(u, connected) ==
    /\ mt5_connections' =
          IF u \notin DOMAIN mt5_connections
          THEN [x \in DOMAIN mt5_connections \cup {u} |->
                   IF x = u THEN NewConnection(connected) ELSE mt5_connections[x]]
          ELSE [mt5_connections EXCEPT ![u].is_connected = connected]
    /\ mt5_connections' # mt5_connections
    /\ done' = NoDone
    /\ streak' = NoStreak
    /\ UNCHANGED <<users, user_api_keys, issued, follows, limits, active_connections, pushes, trades, copy_trades,
                   client_connections, sockets, tasks, sent>>

\* the margin level handle_account_update stores for the payload
StoredMarginLevel(data) ==
    IF data.margin > 0 THEN data.margin_level ELSE MarginSentinel

\* POST /api/ea/data with type account_update, after authentication
handle_account_update(u, data) ==
    /\ u \in DOMAIN mt5_connections
    /\ mt5_connections' =
          [mt5_connections EXCEPT ![u].account_balance = data.balance,
                                  ![u].account_equity = data.equity,
                                  ![u].account_margin = data.margin,
                                  ![u].account_free_margin = data.free_margin,
                                  ![u].account_margin_level = StoredMarginLevel(data),
                                  ![u].account_profit = data.profit]
    /\ done' = NoDone
    /\ streak' = NoStreak
    /\ UNCHANGED <<users, user_api_keys, issued, follows, limits, active_connections, pushes, trades, copy_trades,
                   client_connections, sockets, tasks, sent>>

\* ------------------------------------------------- UI channels
UiSockets == 1..MaxUi

\* websocket objects a suspended send_user_message to u still refers to
HeldUi(u) ==
    UNION {pushes[i].seen \cup pushes[i].disconnected :
              i \in {k \in 1..Len(pushes) : pushes[k].user = u}}

\* /ws/user/{user_id}: ConnectionManager.connect adds a new websocket
connect(u, w) ==
    /\ w \notin active_connections[u] \cup HeldUi(u)
    /\ active_connections' = [active_connections EXCEPT ![u] = @ \cup {w}]
    /\ done' = NoDone
    /\ streak' = NoStreak
    /\ UNCHANGED <<users, user_api_keys, issued, follows, limits, mt5_connections, pushes,
                   trades, copy_trades, client_connections, sockets, tasks, sent>>

\* the channel sets after ConnectionManager.disconnect(w) of user u
Discarded(ac, u, w) == [ac EXCEPT ![u] = @ \ {w}]

\* the suspended iterations once u's entry is deleted: their set object is
\* no longer the one the hub holds
Orphaned(ps, ac, u) ==
    [i \in 1..Len(ps) |->
        IF ps[i].user = u /\ ac[u] = {} THEN [ps[i] EXCEPT !.orphaned = TRUE] ELSE ps[i]]

\* WebSocketDisconnect in the UI endpoint: ConnectionManager.disconnect
disconnect(u, w) ==
    /\ w \in active_connections[u]
    /\ active_connections' = Discarded(active_connections, u, w)
    /\ pushes' = Orphaned(pushes, active_connections', u)
    /\ done' = NoDone
    /\ streak' = NoStreak
    /\ UNCHANGED <<users, user_api_keys, issued, follows, limits, mt5_connections,
                   trades, copy_trades, client_connections, sockets, tasks, sent>>

\* send_user_message up to its first "await websocket.send_text"
send_user_message(u, w) ==
    /\ Len(pushes) < MaxPushes
    /\ w \in active_connections[u]
    /\ pushes' = Append(pushes, [user |-> u, size |-> Cardinality(active_connections[u]),
                                 start |-> active_connections[u], seen |-> {w}, at |-> w,
                                 disconnected |-> {}, orphaned |-> FALSE])
    /\ done' = NoDone
    /\ streak' = NoStreak
    /\ UNCHANGED <<users, user_api_keys, issued, follows, limits, mt5_connections,
                   active_connections, trades, copy_trades, client_connections, sockets,
                   tasks, sent>>

RECURSIVE DisconnectAll(_, _, _)
DisconnectAll(ac, u, ws) ==
    IF ws = {} THEN ac
    ELSE LET w == CHOOSE x \in ws : TRUE
         IN DisconnectAll(Discarded(ac, u, w), u, ws \ {w})

\* the send of a suspended send_user_message returns (ok) or raises; the set
\* iterator then raises RuntimeError when its set changed size, ends, or
\* yields next
SendTextReturns(i, ok, next) ==
    /\ i \in 1..Len(pushes)
    /\ LET f == pushes[i]
           u == f.user
           cur == IF f.orphaned THEN {} ELSE active_connections[u]
           rest == cur \ f.seen
           g == IF ok THEN f ELSE [f EXCEPT !.disconnected = @ \cup {f.at}]
       IN IF Cardinality(cur) # f.size
          THEN /\ next = None
               /\ pushes' = RemoveAt(pushes, i)
               /\ active_connections' = active_connections
               /\ done' = [user |-> None, push |-> "RuntimeError", to |-> u]
          ELSE IF next = None
          THEN /\ rest \cap f.start = {}
               /\ active_connections' = DisconnectAll(active_connections, u,
                                                      g.disconnected \cap active_connections[u])
               /\ pushes' = Orphaned(RemoveAt(pushes, i), active_connections', u)
               /\ done' = [user |-> None, push |-> "ok", to |-> u]
          ELSE /\ next \in rest
               /\ pushes' = [pushes EXCEPT ![i] = [g EXCEPT !.seen = @ \cup {next}, !.at = next]]
               /\ active_connections' = active_connections
               /\ done' = NoDone
    /\ streak' = NoStreak
    /\ UNCHANGED <<users, user_api_keys, issued, follows, limits, mt5_connections,
                   trades, copy_trades, client_connections, sockets, tasks, sent>>

\* ------------------------------------------------- specifications
\* snapshots listing each ticket at most once, in ticket order
RECURSIVE Ascending(_)
Ascending(q) == Len(q) < 2 \/ (q[1].ticket < q[2].ticket /\ Ascending(Tail(q)))

Plain(q) == \A i \in 1..Len(q) : q[i].profit = 0

MasterSnapshots == {q \in Snapshots : Ascending(q)}
PlainSnapshots == {q \in MasterSnapshots : Plain(q)}
OneTicketSnapshots == {q \in PlainSnapshots : Len(q) = 1 /\ q[1].ticket = 1}

Master == 1
Follower == 2

\* the trade store of one master: snapshots, attach and detach
NextStore ==
    \/ \E p \in MasterSnapshots, m \in BOOLEAN : PositionsUpdate(Master, p, m)
    \/ ClientAttach(Master)
    \/ \E s \in sockets : PeerClose(s)
    \/ \E s \in sockets : ClientDetach(s)

SpecStore == InitWith(Budget(MaxTasks, MaxCopies, MaxSent, TRUE)) /\ [][NextStore]_vars

\* one master and one follower: fan-out, confirmations, close fan-out
Next ==
    \/ \E p \in PlainSnapshots, m \in BOOLEAN : PositionsUpdate(Master, p, m)
    \/ \E p \in OneTicketSnapshots : PositionsUpdate(Follower, p, TRUE)
    \/ \E i \in 1..Len(tasks) : Resume(i)
    \/ \E u \in {Master, Follower} : ClientAttach(u)
    \/ \E s \in sockets : ClientDisconnect(s)
    \/ \E h \in Hashes : TradeExecuted(Follower, TRUE, 1, h, None)
    \/ \E h \in Hashes : TradeClosed(Follower, TRUE, 1, h)

Init == InitWith(Budget(MaxTasks, MaxCopies, MaxSent, FALSE))

Spec == Init /\ [][Next]_vars

\* one master and one follower with the market open: overlapping and repeated
\* snapshots of the master
NextPair ==
    \/ \E p \in PlainSnapshots : PositionsUpdate(Master, p, TRUE)
    \/ \E p \in OneTicketSnapshots : PositionsUpdate(Follower, p, TRUE)
    \/ \E i \in 1..Len(tasks) : Resume(i)
    \/ \E u \in {Master, Follower} : ClientAttach(u)
    \/ \E s \in sockets : s.user = Master /\ ClientDisconnect(s)
    \/ \E h \in Hashes : TradeExecuted(Follower, TRUE, 1, h, None)

SpecPair == InitWith(Budget(MaxTasks, PairCopies, PairSent, TRUE)) /\ [][NextPair]_vars

\* one master and two followers: fan-out against attach and backfill
NextFan ==
    \/ \E p \in OneTicketSnapshots : PositionsUpdate(Master, p, TRUE)
    \/ \E i \in 1..Len(tasks) : Resume(i)
    \/ \E u \in Users : ClientAttach(u)
    \/ \E s \in sockets : ClientDisconnect(s)
    \/ \E u \in Users \ {Master}, h \in Hashes : TradeExecuted(u, TRUE, 1, h, None)
    \/ \E u \in Users \ {Master}, h \in Hashes : TradeClosed(u, TRUE, 1, h)

SpecFan == InitWith(Budget(FanTasks, FanCopies, MaxSent, FALSE)) /\ [][NextFan]_vars

\* the trade store of one master fed by snapshots and history batches
Histories == SeqsUpTo(MaxDeals)

NextHistory ==
    \/ \E p \in MasterSnapshots, m \in BOOLEAN : PositionsUpdate(Master, p, m)
    \/ \E h \in Histories : HistoryUpdate(Master, h)
    \/ ClientAttach(Master)
    \/ \E s \in sockets : ClientDisconnect(s)

SpecHistory == InitWith(Budget(MaxTasks, MaxCopies, MaxSent, FALSE)) /\ [][NextHistory]_vars

\* one master and two followers with the market open: the execute fan-out
\* of overlapping snapshots
NextOpen ==
    \/ \E p \in PlainSnapshots \ {<<>>} : PositionsUpdate(Master, p, TRUE)
    \/ \E i \in 1..Len(tasks) : Resume(i)
    \/ \E u \in Users : ClientAttach(u)

SpecOpen == InitWith(Budget(MaxTasks, FanCopies, PairSent, TRUE)) /\ [][NextOpen]_vars

\* one master and two followers: confirmations of every shape against the
\* execute and close fan-outs
Confirmed == Hashes \cup {NoHash}

Reported == Tickets \cup {None}

NextLedger ==
    \/ \E p \in PlainSnapshots : PositionsUpdate(Master, p, TRUE)
    \/ \E p \in OneTicketSnapshots : PositionsUpdate(Follower, p, TRUE)
    \/ \E i \in 1..Len(tasks) : Resume(i)
    \/ \E u \in Users : ClientAttach(u)
    \/ \E u \in Users \ {Master}, ok \in BOOLEAN, h \in Confirmed, mt \in Reported :
           TradeExecuted(u, ok, 1, h, mt)
    \/ \E u \in Users \ {Master}, ok \in BOOLEAN, t \in Tickets, h \in Confirmed :
           TradeClosed(u, ok, t, h)

SpecLedger == InitWith(Budget(MaxTasks, FanCopies, MaxSent, FALSE)) /\ [][NextLedger]_vars

\* one master and one follower with the market open: the follower attaches,
\* goes away and attaches again around the master's snapshots
NextAttach ==
    \/ \E p \in PlainSnapshots \ {<<>>} : PositionsUpdate(Master, p, TRUE)
    \/ \E i \in 1..Len(tasks) : Resume(i)
    \/ ClientAttach(Follower)
    \/ \E s \in sockets : ClientDisconnect(s)
    \/ \E h \in Hashes : TradeExecuted(Follower, TRUE, 1, h, None)

SpecAttach == InitWith(Budget(FanTasks, FanCopies, PairSent, TRUE)) /\ [][NextAttach]_vars

\* one master and two followers whose brokers report every closed position
\* under a ticket other than the one they reported at execution
Reticketed == MaxTicket

NextClose ==
    \/ \E p \in OneTicketSnapshots : PositionsUpdate(Master, p, TRUE)
    \/ \E i \in 1..Len(tasks) : Resume(i)
    \/ \E u \in Users : ClientAttach(u)
    \/ \E u \in Users \ {Master}, h \in Hashes : TradeExecuted(u, TRUE, 1, h, None)
    \/ \E u \in Users \ {Master}, h \in Hashes : TradeClosed(u, TRUE, Reticketed, h)

SpecClose == InitWith(Budget(MaxTasks, PairCopies, MaxSent, FALSE)) /\ [][NextClose]_vars

\* one master and two followers that stay attached: the close fan-out of a
\* master ticket over copies confirmed under well-formed and other tickets
SingleSnapshots == {q \in PlainSnapshots : Len(q) = 1}

NextLocal ==
    \/ \E p \in SingleSnapshots : PositionsUpdate(Master, p, TRUE)
    \/ \E i \in 1..Len(tasks) : Resume(i)
    \/ \E u \in Users : ClientAttach(u)
    \/ \E u \in Users \ {Master}, t \in {1, Malformed}, h \in Hashes :
           TradeExecuted(u, TRUE, t, h, None)

SpecLocal == InitWith(Budget(MaxTasks, PairCopies, LocalSent, TRUE)) /\ [][NextLocal]_vars

\* the users table from empty: registration, key rotation, cache flushes,
\* disabling, and ingestion under every key
Clients == {Master, Follower}

Claimed == Clients \cup {None}

Presented == {k \in Keys : k[1] \in Clients} \cup {NoKey}

OneDeal == {h \in Histories : Len(h) = 1 /\ h[1].ticket = 1 /\ h[1].profit = 0}

NoUsers == [u \in Users |-> Account(u, NoKey)]

NextAuth ==
    \/ \E u \in Clients : register(u)
    \/ \E u \in Clients : regenerate_api_key(u)
    \/ clear_api_cache
    \/ \E u \in Clients : disable_user_test(u)
    \/ \E k \in Presented, i \in Claimed, n \in Claimed, h \in Hosts, t \in Instants \ {Now},
          d \in OneDeal : receive_client_data(k, i, n, h, t, d)

SpecAuth == InitFrom(Budget(MaxTasks, MaxCopies, MaxSent, FALSE), NoUsers, <<>>)
            /\ [][NextAuth]_vars

\* ------------------------------------------------- closure gate
ByMaster == done.user # None /\ users[done.user].is_master_trader

CloseCommands == {k \in 1..Len(sent) : sent[k].type = "close_trade"}

\* executed copies under the master whose linked follower trade is open
OpenCopies == ClearedCandidates(Context(<<>>), Master)

\* C1: a trade of a master goes from open to closed only in a step taken
\* while that master's client is attached in the hub (is_client_connected).
C1_ClosureOnlyWhileAttached ==
    [][\A i \in 1..Len(trades) :
          (/\ users[trades[i].user_id].is_master_trader
           /\ trades[i].status = "open"
           /\ trades'[i].status = "closed")
          => is_client_connected(client_connections, trades[i].user_id)]_vars

\* a reconciliation of the master has closed a trade
C1_Witness == done.user = Master /\ done.closed # {} /\ done.connected

\* C2: an empty positions list with market_open=true from a master whose
\* client is detached closes no trade, runs no master-positions-cleared
\* processing and delivers no close_trade command.
C2_EmptyDetachedInert ==
    /\ (ByMaster /\ done.empty /\ done.market_open /\ ~done.connected)
           => (done.closed = {} /\ ~done.cleared)
    /\ \A k \in CloseCommands :
           (sent[k].origin.empty /\ sent[k].origin.market_open) => sent[k].master_connected

\* a close_trade reached a follower from the empty snapshot of a detached master
C2_Witness ==
    \E k \in CloseCommands :
        sent[k].origin.empty /\ sent[k].origin.market_open /\ ~sent[k].master_connected

\* C7: a snapshot with market_open=false closes no trade and delivers no
\* close_trade command, empty or not, master attached or not.
C7_MarketClosedInert ==
    /\ (done.user # None /\ ~done.market_open) => (done.closed = {} /\ ~done.cleared)
    /\ \A k \in CloseCommands : sent[k].origin.market_open

\* an attached master with a live copy has reported an empty list, market closed
C7_Witness ==
    /\ done.user = Master /\ ~done.market_open /\ done.empty /\ done.connected
    /\ OpenCopies # {}
    /\ is_client_connected(client_connections, Follower)

\* ------------------------------------------------- ledger
Live == {"pending", "executed"}

\* C3: for a master trade and a follow the ledger holds at most one record
\* that is pending or executed.
C3_OneLiveCopy ==
    \A i, j \in 1..Len(copy_trades) :
        (/\ i < j
         /\ copy_trades[i].master_trade_id = copy_trades[j].master_trade_id
         /\ copy_trades[i].follow_id = copy_trades[j].follow_id
         /\ copy_trades[i].status \in Live)
        => copy_trades[j].status \notin Live

StatusMoves == {<<"pending", "executed">>, <<"executed", "closed">>, <<"pending", "failed">>}

\* C4: the status of a ledger record moves only pending->executed,
\* executed->closed or pending->failed.
C4_StatusMoves ==
    [][\A i \in 1..Len(copy_trades) :
          \/ copy_trades'[i].status = copy_trades[i].status
          \/ <<copy_trades[i].status, copy_trades'[i].status>> \in StatusMoves]_vars

\* ------------------------------------------------- reconciliation
\* C5: after a non-empty snapshot S of an attached master with market_open=true
\* exactly the tickets open before and not in S were closed (and handed to the
\* close fan-out), and every ticket of S is open.
C5_ExactClosure ==
    (ByMaster /\ ~done.empty /\ done.market_open /\ done.connected)
    => /\ done.closed = done.open_before \ TicketsOf(done.positions)
       /\ TicketsOf(done.positions) \subseteq done.open_after
       /\ done.closed \cap done.open_after = {}

\* a snapshot closed a trade it does not list while a trade it lists is closed
C5_Witness ==
    /\ ByMaster /\ ~done.empty /\ done.market_open /\ done.connected
    /\ done.closed # {}
    /\ ~(TicketsOf(done.positions) \subseteq done.open_after)

\* C6: an empty list with market_open=true from an attached master closes
\* every open trade of that master and runs master-positions-cleared.
C6_MassClearCloses ==
    (ByMaster /\ done.empty /\ done.market_open /\ done.connected)
    => (done.cleared /\ done.open_after = {})

\* the submission that has just finished repeated the one before it
Repeated == done.user # None /\ done.tracked /\ streak.user = done.user /\ streak.repeat

\* C8: a payload submitted again emits nothing: no execute fan-out, no close
\* fan-out, no command.
C8_RepeatEmitsNothing ==
    Repeated => (done.opened = {} /\ done.closed = {} /\ Len(sent) = streak.sent_before)

\* C9: the second application of a snapshot leaves every trade as the first
\* application left it.
C9_SecondApplicationIdentity == Repeated => done.after = done.before

\* C10: for every trade, status=closed iff close_time is set iff
\* realized_profit is set.
C10_StatusCoherence ==
    \A i \in 1..Len(trades) :
        /\ (trades[i].status = "closed") <=> (trades[i].close_time # None)
        /\ (trades[i].close_time # None) <=> (trades[i].realized_profit # None)

ActiveFollows(u) == {f \in 1..Len(follows) : follows[f].following_id = u /\ follows[f].is_active}

FanCalls(t, fid) == {k \in 1..Len(done.fan) : done.fan[k].ticket = t /\ done.fan[k].follow = fid}

\* C13: for a ticket a master's snapshot introduced, create_copy_trade ran once
\* for every active follow, and for a follow whose follower was connected it
\* created one pending record and dispatched one execute_trade carrying that
\* record's copy_trade_id and copy_hash to that follower.
C13_FanOutOncePerFollow ==
    ByMaster =>
        /\ \A t \in done.opened, fid \in ActiveFollows(done.user) :
               Cardinality(FanCalls(t, fid)) = 1
        /\ \A k \in 1..Len(done.fan) :
               done.fan[k].connected => (done.fan[k].created = 1 /\ done.fan[k].dispatched)

\* a fan-out reached a connected follower and created nothing
C13_Witness ==
    ByMaster /\ \E k \in 1..Len(done.fan) : done.fan[k].connected /\ done.fan[k].created = 0

\* C12: no two ledger records carry the same copy_hash.
C12_HashUnique ==
    \A i, j \in 1..Len(copy_trades) :
        i < j => copy_trades[i].copy_hash # copy_trades[j].copy_hash

\* two records of different follows carry one copy_hash
C12_Witness ==
    \E i, j \in 1..Len(copy_trades) :
        /\ copy_trades[i].follow_id # copy_trades[j].follow_id
        /\ copy_trades[i].copy_hash = copy_trades[j].copy_hash

\* ------------------------------------------------- trade store
\* C11: the trade store holds at most one trade for an owner and a ticket.
C11_TradeUnique ==
    \A i, j \in 1..Len(trades) :
        (i < j /\ trades[i].user_id = trades[j].user_id) => trades[i].ticket # trades[j].ticket

\* C15: when a master opens a position while the client of an active follower
\* is not connected, a pending record is created for that follow at that moment.
C15_OfflinePending ==
    ByMaster => \A k \in 1..Len(done.fan) :
                    ~done.fan[k].connected => done.fan[k].created = 1

\* the fan-out of a new master ticket reached a follow whose client is not
\* connected and left the ledger as it was
C15_Witness ==
    /\ ByMaster
    /\ \E k \in 1..Len(done.fan) :
           /\ done.fan[k].ticket \in done.opened
           /\ ~done.fan[k].connected
           /\ done.fan[k].created = 0
           /\ \A i \in 1..Len(copy_trades) : copy_trades[i].follow_id # done.fan[k].follow

\* ------------------------------------------------- backfill
\* the passes of the backfill that just ran to its end
Passes == IF "backfill" \in DOMAIN done THEN done.backfill ELSE <<>>

\* C16: the backfill run by an attach dispatches exactly one execute_trade for
\* an open master trade that has no pending or executed record for the follow,
\* and none for a master trade that has one.
C16_AttachDispatchesOnce ==
    \A k \in 1..Len(Passes) :
        /\ (Passes[k].live = {} /\ Passes[k].open /\ Passes[k].connected)
               => (Passes[k].created = 1 /\ Passes[k].dispatched)
        /\ Passes[k].live # {} => Passes[k].created = 0
        /\ \A n \in 1..Len(Passes) :
               (Passes[n].trade = Passes[k].trade /\ Passes[n].follow = Passes[k].follow)
               => n = k

\* an attach found one master trade already copied and one not yet copied
C16_Witness ==
    \E k, n \in 1..Len(Passes) :
        /\ Passes[k].live # {} /\ Passes[k].created = 0
        /\ Passes[n].live = {} /\ Passes[n].dispatched

\* ------------------------------------------------- confirmations
\* record i is a pending record of follower u that a confirmation carrying
\* copy_hash h (or, without one, master ticket mt) designates
Designates(u, h, mt, i) ==
    /\ copy_trades[i].status = "pending"
    /\ OwnedBy(copy_trades[i], u)
    /\ IF h # NoHash THEN copy_trades[i].copy_hash = h
                     ELSE mt # None /\ copy_trades[i].master_ticket = mt

\* ledger q differs from the ledger in record i alone, now executed under ticket t
MovesOnly(q, i, t) ==
    /\ Len(q) = Len(copy_trades)
    /\ q[i].status = "executed"
    /\ q[i].follower_ticket = t
    /\ \A j \in 1..Len(copy_trades) : j # i => q[j] = copy_trades[j]

\* C14: a trade_executed with success=true and a ticket from follower F moves
\* exactly one pending record of F, designated by copy_hash when carried and by
\* master_ticket otherwise, to executed with follower_ticket the reported
\* ticket, and changes no other ledger record.
C14_ConfirmationMovesOne ==
    /\ [](\A u \in Users, h \in Confirmed, mt \in Reported :
             (\E i \in 1..Len(copy_trades) : Designates(u, h, mt, i))
             => \E i \in 1..Len(copy_trades) :
                    /\ Designates(u, h, mt, i)
                    /\ MovesOnly(handle_copy_trade_execution_result(u, TRUE, 1, h, mt), i, 1))
    /\ [][\A u \in Users, h \in Confirmed, mt \in Reported :
             TradeExecuted(u, TRUE, 1, h, mt)
             => \E i \in 1..Len(copy_trades) :
                    Designates(u, h, mt, i) /\ MovesOnly(copy_trades', i, 1)]_vars

\* a follower's record was confirmed while the other follower's record with
\* the same copy_hash stays pending
C14_Witness ==
    \E i, j \in 1..Len(copy_trades) :
        /\ copy_trades[i].status = "executed"
        /\ copy_trades[i].follower_ticket = 1
        /\ copy_trades[j].status = "pending"
        /\ copy_trades[j].copy_hash = copy_trades[i].copy_hash
        /\ copy_trades[j].follow_id # copy_trades[i].follow_id

\* the follower a ledger record belongs to
OwnerOf(i) == follows[copy_trades[i].follow_id].follower_id

\* task i is suspended in the send of a close_trade command
ClosePending(i) == tasks[i][Len(tasks[i])].cmd.type = "close_trade"

\* C17: a ledger record becomes closed only in the step of a trade_closed
\* confirmation with success=true from the follower who owns it, and the
\* steps that send close_trade commands (per ticket or mass-clear) leave the
\* status of every ledger record as it was.
C17_ClosedOnlyOnConfirmation ==
    [][/\ \A i \in 1..Len(copy_trades) :
             (copy_trades[i].status # "closed" /\ copy_trades'[i].status = "closed")
             => \E t \in Tickets, h \in Confirmed : TradeClosed(OwnerOf(i), TRUE, t, h)
       /\ \A i \in 1..Len(tasks) :
             (ClosePending(i) /\ Resume(i))
             => /\ Len(copy_trades') = Len(copy_trades)
                /\ \A k \in 1..Len(copy_trades) :
                       copy_trades'[k].status = copy_trades[k].status]_vars

\* a record was closed by its follower's confirmation after its close_trade
\* was delivered, and a mass-clear close_trade was delivered
C17_Witness ==
    /\ \E i \in 1..Len(copy_trades), k \in CloseCommands :
           copy_trades[i].status = "closed" /\ sent[k].copy_trade_id = i
    /\ \E k \in CloseCommands : sent[k].reason = "master_cleared_all"

\* record i is an executed record of follower u with copy_hash h
Holds(u, h, i) ==
    /\ copy_trades[i].status = "executed"
    /\ OwnedBy(copy_trades[i], u)
    /\ copy_trades[i].copy_hash = h

\* ledger q differs from the ledger in record i alone, now closed
ClosesOnly(q, i) ==
    /\ Len(q) = Len(copy_trades)
    /\ q[i].status = "closed"
    /\ \A j \in 1..Len(copy_trades) : j # i => q[j] = copy_trades[j]

\* C18: a trade_closed with success=true from follower F that reports a ticket
\* other than the stored follower_ticket and carries the copy_hash of an
\* executed record of F moves that record to closed.
C18_ClosedByHash ==
    /\ [](\A u \in Users, h \in Hashes, t \in Tickets :
             (\E i \in 1..Len(copy_trades) :
                  Holds(u, h, i) /\ copy_trades[i].follower_ticket # t)
             => \E i \in 1..Len(copy_trades) :
                    /\ Holds(u, h, i)
                    /\ ClosesOnly(handle_copy_trade_close_result(u, TRUE, t, h), i))
    /\ [][\A u \in Users, h \in Hashes :
             TradeClosed(u, TRUE, Reticketed, h)
             => \E i \in 1..Len(copy_trades) :
                    /\ Holds(u, h, i)
                    /\ copy_trades[i].follower_ticket # Reticketed
                    /\ ClosesOnly(copy_trades', i)]_vars

\* a record executed under ticket 1 was closed by a confirmation reporting
\* another ticket
C18_Witness ==
    \E i \in 1..Len(copy_trades) :
        /\ copy_trades[i].status = "closed"
        /\ copy_trades[i].follower_ticket # None
        /\ copy_trades[i].follower_ticket # Reticketed

\* ------------------------------------------------- failed executes
\* C19: a record whose execute_trade failed, because the command could not be
\* sent or because the follower replied success=false, is failed with a
\* non-empty error reason and a retry count raised by one.
C19_FailureCounted ==
    \A i \in 1..Len(copy_trades) :
        copy_trades[i].status = "failed"
        => (copy_trades[i].error_message # "" /\ copy_trades[i].retry_count = 1)

\* a record failed in the send of its execute_trade
C19_Witness ==
    \E i \in 1..Len(copy_trades) :
        /\ copy_trades[i].status = "failed"
        /\ copy_trades[i].error_message = "Failed to send command to client"
        /\ copy_trades[i].retry_count = 0

\* records i and n copy the same master trade for the same follow
SameCopy(q, i, n) ==
    /\ q[i].master_trade_id = q[n].master_trade_id
    /\ q[i].follow_id = q[n].follow_id

\* C20: once the record of a (master trade, follow) is failed, no step creates
\* and dispatches another execute_trade for that master trade and follow.
C20_NoRedispatch ==
    [][\A n \in (Len(copy_trades) + 1)..Len(copy_trades') :
          \A i \in 1..Len(copy_trades) :
              copy_trades[i].status = "failed" => ~SameCopy(copy_trades', i, n)]_vars

\* a second execute_trade for a master trade and follow was delivered after the
\* record of the first had failed
C20_Witness ==
    \E i, n \in 1..Len(copy_trades), k \in 1..Len(sent) :
        /\ i < n
        /\ SameCopy(copy_trades, i, n)
        /\ copy_trades[i].status = "failed"
        /\ sent[k].type = "execute_trade"
        /\ sent[k].copy_trade_id = n

\* ------------------------------------------------- locality of the fan-outs
\* the copies the close fan-out that just ended had to reach
Owed == IF "due" \in DOMAIN done THEN done.due ELSE {}

Reached == {sent[k].copy_trade_id : k \in CloseCommands}

\* C21: in the fan-out of one master close event a failure for one follower
\* (here a follower_ticket that is malformed) keeps the command from no other
\* connected follower: every executed copy of a closed ticket whose own
\* follower_ticket is well-formed got its close_trade.
C21_FanOutLocal ==
    ByMaster => \A i \in Owed : copy_trades[i].follower_ticket # Malformed => i \in Reached

\* the close fan-out ended with a copy of one follower unreached next to a
\* copy of another follower that int() rejects
C21_Witness ==
    /\ ByMaster
    /\ \E i, j \in Owed :
           /\ copy_trades[i].follower_ticket = Malformed
           /\ copy_trades[j].follower_ticket # Malformed
           /\ copy_trades[j].follow_id # copy_trades[i].follow_id
           /\ j \notin Reached

\* ------------------------------------------------- API key authentication
\* the keys of user u that a later rotation replaced
Replaced(u) == {issued[u][j] : j \in 1..(Len(issued[u]) - 1)}

\* an ingestion request was answered in the last step
Answered == "status" \in DOMAIN done

\* C22: once regenerate-api-key has succeeded for a user, every ingestion
\* request presenting a key issued to that user before is answered 401,
\* whatever else it carries and after any number of further rotations.
C22_OldKeysRefused ==
    /\ \A u \in Users : \A k \in Replaced(u), i \in Claimed, n \in Claimed, h \in Hosts :
           Admission(k, i, n, h, Later).status = 401
    /\ \A u \in Users :
           (Answered /\ done.api_key \in Replaced(u)) => done.status = 401

\* a request presenting a key replaced by two rotations was refused
C22_Witness ==
    /\ Answered
    /\ done.status = 401
    /\ \E u \in Users : Len(issued[u]) = 3 /\ done.api_key = issued[u][1]

\* the user whose row holds key k, None when no row does
Holder(k) == UserWithKey(users, k)

\* C23: an ingestion request presenting the API key of a user whose is_active
\* flag is false is answered 401, also when the key was cached while the user
\* was active.
C23_InactiveRefused ==
    (Answered /\ Holder(done.api_key) # None /\ ~users[Holder(done.api_key)].is_active)
    => done.status = 401

\* a request under the cached key of a disabled user was accepted
C23_Witness ==
    /\ Answered
    /\ done.cached
    /\ done.status = 200
    /\ ~users[done.owner].is_active

\* C24: every successful authentication by API key returns a user whose stored
\* api_key equals the presented key, through the cache or through the
\* database, after any registrations, rotations and cache flushes.
C24_KeyIntegrity ==
    /\ \A k \in Presented :
          LET user == get_user_by_api_key(k, user_api_keys, users).user
          IN user # None => users[user].api_key = k
    /\ (Answered /\ done.owner # None) => users[done.owner].api_key = done.api_key

\* a rotated key was accepted through the cache
C24_Witness ==
    /\ Answered
    /\ done.status = 200
    /\ done.cached
    /\ Len(issued[done.owner]) > 1

\* the claimed identity differs from the user the key authenticates
Mismatch(k, i, n) ==
    LET owner == get_user_by_api_key(k, user_api_keys, users).user
    IN /\ owner # None
       /\ \/ i # None /\ i # owner
          \/ n # None /\ n # users[owner].username

Refused == Answered /\ done.status = 403

\* C25: an ingestion request whose user_id or username does not match the
\* owner of the presented key is answered 403 and leaves the trade store, the
\* ledger and the owner's last_login_ip and last_seen as they were.
C25_MismatchRefused ==
    /\ [](\A k \in Presented, i \in Claimed, n \in Claimed, h \in Hosts :
            Mismatch(k, i, n) => Admission(k, i, n, h, Later).status = 403)
    /\ [][Refused' =>
            /\ trades' = trades
            /\ copy_trades' = copy_trades
            /\ users'[done'.owner].last_login_ip = users[done'.owner].last_login_ip
            /\ users'[done'.owner].last_seen = users[done'.owner].last_seen]_vars

\* a request of a user with stored deals and a bound address was refused
C25_Witness ==
    /\ Refused
    /\ \E i \in 1..Len(trades) : trades[i].user_id = done.owner
    /\ users[done.owner].last_login_ip # None

Accepted == Answered /\ done.status = 200

\* C26: once last_login_ip is set, an authenticated ingestion from another
\* address is accepted and leaves last_login_ip as it was.
C26_AddressKept ==
    [][(Accepted' /\ users[done'.owner].last_login_ip # None)
       => users'[done'.owner].last_login_ip = users[done'.owner].last_login_ip]_vars

\* users 1 and 2 offer their trades, nobody follows anybody yet
TwoMasters ==
    [u \in Users |-> [Account(u, <<u, 1>>) EXCEPT !.is_master_trader = (u \in {Master, Follower})]]

\* the follow graph: both follow endpoints and unfollow, by every user
NextFollow ==
    \/ \E u \in Users, m \in Users : marketplace_follow_trader(u, m)
    \/ \E u \in Users, m \in Users : follow_trader(u, m)
    \/ \E u \in Users, m \in Users : unfollow_trader(u, m)

SpecFollow ==
    InitFrom(Budget(MaxTasks, MaxCopies, MaxSent, FALSE), TwoMasters, <<>>) /\ [][NextFollow]_vars

\* C27: no follow edge has the same user as follower and as master; a follow
\* request by a user for its own id creates or reactivates no edge.
C27_NoSelfFollow ==
    \A f \in 1..Len(follows) : follows[f].follower_id # follows[f].following_id

\* a master holds an active edge to itself
C27_Witness ==
    \E f \in 1..Len(follows) :
        /\ follows[f].follower_id = follows[f].following_id
        /\ follows[f].is_active

\* one master and one follower whose client may attach a second time while
\* its first websocket is still open
NextHub ==
    \/ \E p \in PlainSnapshots : PositionsUpdate(Master, p, TRUE)
    \/ \E i \in 1..Len(tasks) : Resume(i)
    \/ ClientAttachUpTo(Follower, MaxChannels)
    \/ \E s \in sockets : PeerClose(s)
    \/ \E s \in sockets : ClientDetach(s)
    \/ \E s \in sockets : ClientDisconnect(s)

SpecHub == InitWith(Budget(MaxTasks, PairCopies, PairSent, FALSE)) /\ [][NextHub]_vars

\* the suspended sends of a state
Sending(ts) ==
    {ts[i][Len(ts[i])] : i \in {k \in 1..Len(ts) : ts[k][Len(ts[k])].op = "sending"}}

\* C28: the hub holds one command channel per user: an attach makes the new
\* websocket the user's channel, a send that starts goes out on the channel
\* the hub holds then, and the detach of a websocket that is not the user's
\* channel leaves the user connected on the same channel.
C28_OneChannel ==
    [][/\ \A s \in sockets' \ sockets :
             s.up => client_connections'[s.user] = s.ws
       /\ \A f \in Sending(tasks') \ Sending(tasks) : f.ws = client_connections'[f.to]
       /\ \A s \in sockets \ sockets' :
             (/\ ~\E x \in sockets' : x.user = s.user /\ x.ws = s.ws
              /\ is_client_connected(client_connections, s.user)
              /\ client_connections[s.user] # s.ws)
             => /\ is_client_connected(client_connections', s.user)
                /\ client_connections' = client_connections]_vars

\* both websockets of the follower are open, the hub holds the newer one and a
\* command is on its way on it
C28_Witness ==
    /\ Cardinality({s \in sockets : s.user = Follower /\ s.up}) = MaxChannels
    /\ client_connections[Follower] = MaxChannels
    /\ \E f \in Sending(tasks) : f.to = Follower /\ f.ws = MaxChannels

\* the copies master-positions-cleared dispatches a close_trade for
ClearedDispatch(u) ==
    {i \in ClearedCandidates(Context(<<>>), u) :
        is_client_connected(client_connections, follows[copy_trades[i].follow_id].follower_id)}

\* the copies per-ticket close processing of all tickets dispatches for
SpecificDispatch(u) == Due(Context(<<>>), u, Tickets)

\* C29: on the same ledger, master-positions-cleared dispatches a close_trade
\* for exactly the executed copies under the master that per-ticket close
\* processing of all the master's tickets dispatches for.
C29_ClearIsPerTicket ==
    \A u \in Users : users[u].is_master_trader => ClearedDispatch(u) = SpecificDispatch(u)

\* the master cleared its positions and an executed copy of an attached
\* follower, which per-ticket processing closes, got no close command
C29_Witness ==
    /\ done.user = Master
    /\ done.cleared
    /\ tasks = <<>>
    /\ \E i \in SpecificDispatch(Master) : i \notin ClearedDispatch(Master) /\ i \notin Reached

\* tr2 is tr followed by closed trades of u made from the deals of history
\* whose ticket u did not hold in tr, one at least for each such ticket
Appends(tr, tr2, u, history) ==
    LET held == {tr[i].ticket : i \in {k \in 1..Len(tr) : tr[k].user_id = u}}
        added == (Len(tr) + 1)..Len(tr2)
    IN /\ Len(tr2) >= Len(tr)
       /\ SubSeq(tr2, 1, Len(tr)) = tr
       /\ \A k \in added :
             /\ tr2[k].user_id = u
             /\ tr2[k].status = "closed"
             /\ tr2[k].ticket \notin held
             /\ \E d \in 1..Len(history) : tr2[k] = HistoryTrade(u, history[d])
       /\ \A d \in 1..Len(history) :
             history[d].ticket \notin held
             => \E k \in added : tr2[k] = HistoryTrade(u, history[d])

\* C30: history_update is append-only: it inserts a closed trade for each
\* ticket the owner does not hold yet, skips the tickets the owner holds, and
\* leaves every stored trade unchanged in every field.
C30_HistoryAppendOnly ==
    /\ [](\A h \in Histories : Appends(trades, handle_history_update(trades, Master, h), Master, h))
    /\ [][\A h \in Histories : HistoryUpdate(Master, h) => Appends(trades, trades', Master, h)]_vars

\* a history row was appended behind an open trade of the same owner
C30_Witness ==
    \E i, j \in 1..Len(trades) :
        /\ i < j
        /\ trades[i].user_id = Master /\ trades[i].status = "open"
        /\ trades[j].user_id = Master /\ trades[j].status = "closed"
        /\ trades[j].realized_profit = 0
        /\ trades[j].ticket # trades[i].ticket

\* ------------------------------------------------- account data
\* account payloads: margin absent, negative and positive; margin levels in
\* and out of the range of a percentage
Equities == {0, 300}
Margins == {-1, 0, 100, 300}
MarginLevels == {-1, 0, 300, 100001}

Accounts ==
    [balance : {0}, equity : Equities, margin : Margins, free_margin : {0},
     margin_level : MarginLevels, profit : {0}]

NextAccount ==
    \/ \E u \in Clients, connected \in BOOLEAN : handle_connection_status(u, connected)
    \/ \E u \in Clients, data \in Accounts : handle_account_update(u, data)

SpecAccount == InitWith(Budget(MaxTasks, MaxCopies, MaxSent, FALSE)) /\ [][NextAccount]_vars

\* the margin level the account data stands for
MarginLevelOf(data) ==
    IF data.margin <= 0 THEN MarginSentinel
    ELSE IF data.margin_level < 0 \/ data.margin_level > 100000
    THEN (data.equity * 100) \div data.margin
    ELSE data.margin_level

\* C31: account_update stores the sentinel 999999 when margin is not positive,
\* equity/margin*100 when margin is positive and the provided margin level is
\* negative or above 100000, and the provided margin level otherwise.
C31_MarginLevel ==
    [][\A u \in Clients, data \in Accounts :
          handle_account_update(u, data)
          => mt5_connections'[u].account_margin_level = MarginLevelOf(data)]_vars

\* a margin level outside the range of a percentage is stored with a
\* positive margin
C31_Witness ==
    \E u \in Clients :
        /\ u \in DOMAIN mt5_connections
        /\ mt5_connections[u].account_margin > 0
        /\ mt5_connections[u].account_margin_level > 100000
        /\ mt5_connections[u].account_margin_level # MarginSentinel

\* ------------------------------------------------- serialization
\* a positions reconciliation of owner u is suspended in a send
InFlight(u) ==
    \E i \in 1..Len(tasks) : tasks[i][1].op = "positions" /\ tasks[i][1].user = u

\* C32: at most one positions reconciliation per owner is in flight: a
\* snapshot of an owner does not start reconciling while an earlier one of the
\* same owner has not finished.
C32_OneReconciliation ==
    [][\A p \in PlainSnapshots \ {<<>>} :
          PositionsUpdate(Master, p, TRUE) => ~InFlight(Master)]_vars

\* a later snapshot of the master has been reconciled to the end while an
\* earlier one is still suspended in a send
C32_Witness ==
    /\ InFlight(Master)
    /\ done.user = Master
    /\ done.positions # <<>>

\* the requests of owner u that have not returned: suspended in the send of a
\* command to a follower
Waiting(ts, u) ==
    {i \in 1..Len(ts) : /\ ts[i][1].op = "positions"
                        /\ ts[i][1].user = u
                        /\ ts[i][Len(ts[i])].op = "sending"}

\* C33: the ingestion handler of a positions snapshot returns its response
\* without waiting for the dispatch of execute_trade or close_trade commands:
\* the request is never left suspended in a send to a follower.
C33_ResponseNotWaiting ==
    [][\A p \in PlainSnapshots :
          PositionsUpdate(Master, p, TRUE)
          => Cardinality(Waiting(tasks', Master)) = Cardinality(Waiting(tasks, Master))]_vars

\* the request of the master is held back by the send of a close_trade
C33_Witness ==
    \E i \in Waiting(tasks, Master) :
        /\ tasks[i][Len(tasks[i])].cmd.type = "close_trade"
        /\ done.user # Master

\* ------------------------------------------------- UI channels
\* the UI channels of two users against pushes to them
NextUi ==
    \/ \E u \in Clients, w \in UiSockets : connect(u, w)
    \/ \E u \in Clients, w \in UiSockets : disconnect(u, w)
    \/ \E u \in Clients, w \in UiSockets : send_user_message(u, w)
    \/ \E i \in 1..Len(pushes), ok \in BOOLEAN, next \in UiSockets \cup {None} :
           SendTextReturns(i, ok, next)

SpecUi == InitWith(Budget(MaxTasks, MaxCopies, MaxSent, FALSE)) /\ [][NextUi]_vars

Pushed == "push" \in DOMAIN done

\* C34: an attach or detach of a UI channel of a user never takes effect in
\* the middle of a push that iterates that user's channel set: every
\* fan-out sees a consistent set and completes without error.
C34_HubSynchronized ==
    /\ [](Pushed => done.push = "ok")
    /\ [][\A i \in 1..Len(pushes) :
             active_connections'[pushes[i].user] = active_connections[pushes[i].user]
             \/ (Len(pushes') < Len(pushes))]_vars

\* a push ended in the iterator's RuntimeError
C34_Witness == Pushed /\ done.push = "RuntimeError"

\* ------------------------------------------------- late confirmations
\* one master and one follower. Fairness: the event loop runs every
\* suspended send to its return (no send stays in flight for ever), and the
\* follower's client, whenever it is away, attaches again.
NextLate ==
    \/ \E p \in PlainSnapshots : PositionsUpdate(Master, p, TRUE)
    \/ \E i \in 1..Len(tasks) : Resume(i)
    \/ \E u \in Clients : ClientAttach(u)
    \/ \E s \in sockets : s.user = Follower /\ ClientDisconnect(s)
    \/ \E h \in Hashes : TradeExecuted(Follower, TRUE, 1, h, None)

SpecLate ==
    /\ InitWith(Budget(MaxTasks, MaxCopies, PairSent, FALSE))
    /\ [][NextLate]_vars
    /\ WF_vars(\E i \in 1..Len(tasks) : Resume(i))
    /\ WF_vars(ClientAttach(Follower))

\* record i is executed, its master trade is closed and the follower's
\* client is connected
Late(i) ==
    /\ i <= Len(copy_trades)
    /\ copy_trades[i].status = "executed"
    /\ trades[copy_trades[i].master_trade_id].status = "closed"
    /\ is_client_connected(client_connections, follows[copy_trades[i].follow_id].follower_id)

\* a close_trade for record i was delivered or is being sent
Dispatched(i) ==
    \/ \E k \in CloseCommands : sent[k].copy_trade_id = i
    \/ \E f \in Sending(tasks) : f.cmd.type = "close_trade" /\ f.cmd.copy_trade_id = i

\* C35: when a master trade is closed by reconciliation and a copy-trade
\* record of it is or becomes executed, a close_trade for that record is
\* eventually dispatched, provided the follower's client is connected again
\* and again.
C35_LateCloseDispatched ==
    \A i \in 1..MaxCopies :
        []<>is_client_connected(client_connections, Follower) => (Late(i) ~> Dispatched(i))

\* the confirmation came after the master's close: the record is executed,
\* the follower is connected, nothing is in flight and no close was sent
C35_Witness ==
    \E i \in 1..MaxCopies : Late(i) /\ ~Dispatched(i) /\ tasks = <<>>

\* ------------------------------------------------- follow edges and fan-out
\* users follow and unfollow the master while it posts snapshots and the
\* clients attach
NextEdges ==
    \/ \E u \in Clients : follow_trader(u, Master)
    \/ \E u \in Clients : marketplace_follow_trader(u, Master)
    \/ \E u \in Clients : unfollow_trader(u, Master)
    \/ \E p \in PlainSnapshots \ {<<>>} : PositionsUpdate(Master, p, TRUE)
    \/ \E i \in 1..Len(tasks) : Resume(i)
    \/ \E u \in Clients : ClientAttach(u)
    \/ \E s \in sockets : ClientDisconnect(s)

SpecEdges ==
    InitFrom(Budget(MaxTasks, PairCopies, PairSent, FALSE),
             [u \in Users |-> Account(u, <<u, 1>>)], <<>>)
    /\ [][NextEdges]_vars

ExecuteCommands == {k \in 1..Len(sent) : sent[k].type = "execute_trade"}

\* the owner of the master trade a command copies
MasterOf(cmd) == trades[copy_trades[cmd.copy_trade_id].master_trade_id].user_id

\* C36: no execute_trade for a master trade is dispatched to the user who owns
\* that master trade.
C36_NoSelfCopy ==
    \A k \in ExecuteCommands : sent[k].to # MasterOf(sent[k])

\* the master's client received the order to copy the master's own position
C36_Witness ==
    \E k \in ExecuteCommands :
        /\ sent[k].to = Master
        /\ MasterOf(sent[k]) = Master
        /\ C27_Witness

\* ------------------------------------------------- backfill after a mass-clear
\* one master that opens ticket 1 and clears its positions, one follower that
\* copies, confirms, reports its position, closes, detaches and attaches
NextRecopy ==
    \/ \E p \in OneTicketSnapshots \cup {<<>>} : PositionsUpdate(Master, p, TRUE)
    \/ \E p \in OneTicketSnapshots : PositionsUpdate(Follower, p, TRUE)
    \/ \E i \in 1..Len(tasks) : Resume(i)
    \/ \E u \in Clients : ClientAttach(u)
    \/ \E s \in sockets : s.user = Follower /\ ClientDisconnect(s)
    \/ \E h \in Hashes : TradeExecuted(Follower, TRUE, 1, h, None)
    \/ \E h \in Hashes : TradeClosed(Follower, TRUE, 1, h)

SpecRecopy == InitWith(Budget(MaxTasks, PairCopies, PairSent, TRUE)) /\ [][NextRecopy]_vars

\* the execute_trade commands a step starts to send
Started(ts, ts2) ==
    {f.cmd : f \in {g \in Sending(ts2) \ Sending(ts) : g.cmd.type = "execute_trade"}}

\* C37: backfill on follower attach never dispatches execute_trade for a
\* master ticket absent from that master's most recent market_open=true
\* snapshot.
C37_BackfillCurrent ==
    [][(/\ ClientAttach(Follower)
        /\ streak.user = Master
        /\ streak.market_open)
       => \A cmd \in Started(tasks, tasks') :
             cmd.master_ticket \in TicketsOf(streak.positions)]_vars

\* a backfill is sending execute_trade for a master ticket whose earlier copy
\* for the same follow was closed
C37_Witness ==
    \E f \in Sending(tasks), i \in 1..Len(copy_trades) :
        /\ f.cmd.type = "execute_trade"
        /\ \E t \in 1..Len(tasks) : tasks[t][1].op = "backfill" /\ tasks[t][Len(tasks[t])] = f
        /\ copy_trades[i].status = "closed"
        /\ copy_trades[i].master_ticket = f.cmd.master_ticket
        /\ copy_trades[i].follow_id = copy_trades[f.cmd.copy_trade_id].follow_id
        /\ \E k \in CloseCommands :
              sent[k].copy_trade_id = i /\ sent[k].reason = "master_cleared_all"

\* the follow edge a command's copy record was created over
EdgeOf(cts, cmd) == follows[cts[cmd.copy_trade_id].follow_id]

\* C38: no execute_trade command is dispatched over a follow edge that is
\* inactive at dispatch time: every step that starts to send an execute_trade
\* finds the edge of its copy record active.
C38_ActiveEdgeOnly ==
    [][\A cmd \in Started(tasks, tasks') : EdgeOf(copy_trades', cmd).is_active]_vars

\* a backfill for the follower is suspended in its first send with a second
\* open master trade still to come, and the follower has unfollowed meanwhile
C38_Witness ==
    \E t \in 1..Len(tasks) :
        LET root == tasks[t][1]
        IN /\ root.op = "backfill"
           /\ root.user = Follower
           /\ Len(tasks[t]) = 2
           /\ tasks[t][2].op = "sending"
           /\ root.k <= Len(root.mts)
           /\ ~follows[root.follows[root.j]].is_active

\* ------------------------------------------------- confirmations and other followers
\* one master whose positions are copied to two followers, whose records
\* share the copy_hash, and every confirmation either follower can send
NextConfine ==
    \/ \E p \in PlainSnapshots : PositionsUpdate(Master, p, TRUE)
    \/ \E i \in 1..Len(tasks) : Resume(i)
    \/ \E u \in Users \ {Master} : ClientAttach(u)
    \/ \E u \in Users \ {Master}, ok \in BOOLEAN, h \in Confirmed, mt \in Reported :
           TradeExecuted(u, ok, 1, h, mt)
    \/ \E u \in Users \ {Master}, ok \in BOOLEAN, t \in Tickets, h \in Confirmed :
           TradeClosed(u, ok, t, h)

SpecConfine == InitWith(Budget(MaxTasks, PairCopies, MaxSent, FALSE)) /\ [][NextConfine]_vars

\* the ledger q as every follower but u sees it: u's records are hidden
Others(q, u) ==
    [i \in 1..Len(q) |-> IF OwnedBy(q[i], u) THEN [follow_id |-> q[i].follow_id] ELSE q[i]]

\* a trade_executed or trade_closed frame from u is handled in this step
Confirms(u) ==
    /\ UNCHANGED <<trades, tasks, sent, sockets>>
    /\ \/ \E ok \in BOOLEAN, h \in Confirmed, mt \in Reported : TradeExecuted(u, ok, 1, h, mt)
       \/ \E ok \in BOOLEAN, t \in Tickets, h \in Confirmed : TradeClosed(u, ok, t, h)

\* C39: a trade_executed or trade_closed confirmation on user U's command
\* channel changes only copy-trade records whose follow edge has U as
\* follower, and what a confirmation of another follower does to the records
\* of the followers other than U is the same before and after it.
C39_ConfirmationsConfined ==
    /\ [](\A u \in Users, ok \in BOOLEAN, h \in Confirmed :
             /\ \A mt \in Reported :
                   Others(handle_copy_trade_execution_result(u, ok, 1, h, mt), u)
                       = Others(copy_trades, u)
             /\ \A t \in Tickets :
                   Others(handle_copy_trade_close_result(u, ok, t, h), u)
                       = Others(copy_trades, u))
    /\ [][\A u \in Users :
             Confirms(u)
             => /\ Others(copy_trades', u) = Others(copy_trades, u)
                /\ \A v \in Users \ {u}, ok \in BOOLEAN, h \in Confirmed :
                      /\ \A mt \in Reported :
                            Others(handle_copy_trade_execution_result(v, ok, 1, h, mt), u)'
                                = Others(handle_copy_trade_execution_result(v, ok, 1, h, mt), u)
                      /\ \A t \in Tickets :
                            Others(handle_copy_trade_close_result(v, ok, t, h), u)'
                                = Others(handle_copy_trade_close_result(v, ok, t, h), u)]_vars

\* a follower's record was failed by its confirmation while another follower
\* holds a pending record for the same master ticket
C39_Witness ==
    \E i, j \in 1..Len(copy_trades) :
        /\ copy_trades[i].error_message = "Execution failed"
        /\ copy_trades[j].status = "pending"
        /\ copy_trades[j].master_ticket = copy_trades[i].master_ticket
        /\ OwnerOf(j) # OwnerOf(i)

\* ------------------------------------------------- one follower of two masters
\* users 1 and 2 are masters and each opens its own ticket 1; the third user
\* follows both, copies both and answers the commands
BothFollowed ==
    << [follower_id |-> 3, following_id |-> Master, is_active |-> TRUE],
       [follower_id |-> 3, following_id |-> Follower, is_active |-> TRUE] >>

NextTwo ==
    \/ \E m \in {Master, Follower}, p \in OneTicketSnapshots : PositionsUpdate(m, p, TRUE)
    \/ \E i \in 1..Len(tasks) : Resume(i)
    \/ \E u \in Users \ {Master, Follower} : ClientAttach(u)
    \/ \E s \in sockets : ClientDisconnect(s)
    \/ \E u \in Users \ {Master, Follower}, h \in Hashes : TradeExecuted(u, TRUE, 1, h, 1)
    \/ \E u \in Users \ {Master, Follower}, h \in Hashes : TradeExecuted(u, FALSE, None, h, 1)

SpecTwo ==
    InitFrom(Budget(MaxTasks, PairCopies, PairSent, FALSE), TwoMasters, BothFollowed)
        /\ [][NextTwo]_vars

\* the execute_trade commands delivered to u that carry copy_hash h
Answered_by(u, h) ==
    {k \in ExecuteCommands : sent[k].to = u /\ sent[k].copy_hash = h}

\* C40: a trade_executed with success=false marks failed only the pending
\* record created for the command it answers (same copy_trade_id and
\* copy_hash); every other record is left unchanged.
C40_FailureHitsItsRecord ==
    [][\A u \in Users, h \in Hashes :
          (TradeExecuted(u, FALSE, None, h, 1) /\ Answered_by(u, h) # {})
          => \A i \in 1..Len(copy_trades) :
                copy_trades'[i] # copy_trades[i]
                => \E k \in Answered_by(u, h) : sent[k].copy_trade_id = i]_vars

\* a record of the follower was failed by a confirmation while its record for
\* the other master's trade with the same master_ticket is pending
C40_Witness ==
    \E i, j \in 1..Len(copy_trades) :
        /\ copy_trades[i].error_message = "Execution failed"
        /\ copy_trades[j].status = "pending"
        /\ copy_trades[j].master_ticket = copy_trades[i].master_ticket
        /\ OwnerOf(j) = OwnerOf(i)
        /\ follows[copy_trades[j].follow_id].following_id
               # follows[copy_trades[i].follow_id].following_id

====
